---- MODULE Spec2Model ----
(***************************************************************************)
(* The Pandoc wrapper class of auto-pandoc (dist/pandoc.js): binary        *)
(* resolution with its process-wide cache, the child-process executor      *)
(* with its timer, and the public operations built on them.  One task is   *)
(* one caller of a public operation; a step is one handler or one          *)
(* continuation of an async function up to its next await.                 *)
(***************************************************************************)
EXTENDS Integers, Sequences, FiniteSets, TLC

VARIABLES
    task,        \* per caller: operation, position in it, frames, child, result
    binaryPath,  \* Pandoc._binaryPath
    version,     \* Pandoc._version
    probeOk,     \* history: candidate paths some probe child of which exited 0
    call,        \* an entry point called with its arguments (argument building)
    request,     \* the working directory and argument list that call hands execPandoc
    hostCwd,     \* process.cwd() of the host process
    cli,         \* one run of the command line tool bin/auto-pandoc.js
    elem,        \* an Image or Link of a document, before and after the Lua filter
    preset       \* one call of a preset of utils.js

vars == <<task, binaryPath, version, probeOk, call, request, hostCwd, cli, elem, preset>>

\* the state of the Pandoc class, and the state of the tools around it
libVars == <<task, binaryPath, version, probeOk, call, request, hostCwd>>
toolVars == <<cli, elem, preset>>

(* ------------------------------ bounds --------------------------------- *)
Tasks == {"t1", "t2"}   \* the concurrent callers of the host process
MaxChunks == 1          \* 'data' events per stream of one child
MaxTrue == 2            \* boolean option fields set true in one options record
MaxLen == 2             \* elements of one list-valued option field

(* ---------------------------- JS values -------------------------------- *)
Undefined == "undefined"
Null == "null"

\* x || undefined, for a string x
OrUndefined(s) == IF s = "" THEN Undefined ELSE s

\* truthiness of a string-or-undefined-or-null value
Truthy(v) == v # Undefined /\ v # Null /\ v # ""

\* String.prototype.includes
Contains(s, sub) ==
    \E i \in 1..(Len(s) - Len(sub) + 1) : SubSeq(s, i, i + Len(sub) - 1) = sub

(* --------------------------- program constants ------------------------- *)
possiblePaths == <<"bin/pandoc", "bin/pandoc.exe", "pandoc">>
ProbeTimeout == 5000
ConvertTimeout == 30000
VerboseTimeout == 60000

NotFoundMsg ==
    "Pandoc binary not found. Please run 'npm run install-pandoc' to install the binary manually."
VersionFailMsg == "Failed to get pandoc version"
ListFailMsg == "Failed to list input formats"
SpawnErrorMsg == "spawn pandoc ENOENT"
TimeoutMsg(ms) == "Pandoc execution timed out after " \o ToString(ms) \o "ms"
InputNotFoundMsg(p) == "Input file not found: " \o p

\* what the child may write on one 'data' event
StdoutChunks == {"pandoc 3.1.2"}
StderrChunks == {"[WARNING] bad"}

\* path.resolve of a relative path against the host's working directory
HostCwd == "/work"
ResolvePath(p) == IF SubSeq(p, 1, 1) = "/" THEN p ELSE hostCwd \o "/" \o p

\* the version regexp /pandoc (\d+\.\d+(?:\.\d+)?)/ on the outputs the model produces
ParseVersion(out) == IF Contains(out, "pandoc 3.1.2") THEN "3.1.2" ELSE "unknown"

(* ------------------------- execPandoc invocation ----------------------- *)
\* the outcome of one invocation: the state of the promise execPandoc returns
Pending == [kind |-> "Pending", success |-> FALSE, output |-> Undefined,
            error |-> Undefined, message |-> Undefined]

\* one invocation: the child, the timer, the closure variables stdout and stderr.
\* timeout 0 stands for options.timeout absent (both are falsy); code is the
\* exit code as text, Null when the child was ended by a signal.
NoExec == [purpose |-> "none", path |-> Null, proc |-> "none", spawns |-> 0,
           timeout |-> 0, timer |-> "none", signal |-> "none",
           stdout |-> "", stderr |-> "", nout |-> 0, nerr |-> 0, code |-> Null,
           errorEv |-> FALSE, closeEv |-> FALSE, outcome |-> Pending,
           stdin |-> <<>>]          \* the calls made on child.stdin, in order

\* resolve/reject of a promise: the first call settles it, later calls are no-ops
SettleAlways(e, o) == [e EXCEPT !.outcome = o]
Settle(e, o) == IF e.outcome.kind = "Pending" THEN [e EXCEPT !.outcome = o] ELSE e

\* if (timeoutId) clearTimeout(timeoutId)
ClearTimer(e) == IF e.timer = "armed" THEN [e EXCEPT !.timer = "cleared"] ELSE e

\* the promise executor: spawn, and arm the timer if options.timeout is truthy
SpawnChild(purpose, path, timeout) ==
    [NoExec EXCEPT !.purpose = purpose, !.path = path, !.proc = "running",
                   !.spawns = 1, !.timeout = timeout,
                   !.timer = IF timeout # 0 THEN "armed" ELSE "none"]

\* the calls on child.stdin
StdinWrite(text) == [op |-> "write", data |-> text]
StdinEnd == [op |-> "end", data |-> ""]

\* "Send input if provided": write then end when options.input is truthy,
\* end alone otherwise; nothing when the child has no stdin
SendInputEndFirst(e, input, hasStdin) ==
    IF Truthy(input) /\ hasStdin
    THEN [e EXCEPT !.stdin = <<StdinEnd, StdinWrite(input)>>]
    ELSE IF hasStdin THEN [e EXCEPT !.stdin = <<StdinEnd>>] ELSE e
SendInput(e, input, hasStdin) ==
    IF Truthy(input) /\ hasStdin
    THEN [e EXCEPT !.stdin = <<StdinWrite(input), StdinEnd>>]
    ELSE IF hasStdin THEN [e EXCEPT !.stdin = <<StdinEnd>>] ELSE e

\* child.kill(sig): SIGKILL ends a running child; a cooperative signal may be ignored
Kill(e, sig) ==
    [e EXCEPT !.signal = sig,
              !.proc = IF @ = "running" /\ sig = "SIGKILL" THEN "killed" ELSE @]

\* the setTimeout callback: child.kill("SIGKILL"); reject(timeout error)
OnTimeoutSigterm(e) ==
    Settle(Kill([e EXCEPT !.timer = "fired"], "SIGTERM"),
           [Pending EXCEPT !.kind = "TimedOut", !.message = TimeoutMsg(e.timeout)])
OnTimeout(e) ==
    Settle(Kill([e EXCEPT !.timer = "fired"], "SIGKILL"),
           [Pending EXCEPT !.kind = "TimedOut", !.message = TimeoutMsg(e.timeout)])

\* child.on("error"): clearTimeout; reject(error)
OnError(e) ==
    Settle(ClearTimer([e EXCEPT !.errorEv = TRUE]),
           [Pending EXCEPT !.kind = "SpawnFailed", !.message = SpawnErrorMsg])

\* child.on("close"): clearTimeout; resolve({success: code === 0, output, error})
OnClose(e) ==
    Settle(ClearTimer([e EXCEPT !.closeEv = TRUE]),
           [Pending EXCEPT !.kind = "Completed", !.success = (e.code = "0"),
                           !.output = OrUndefined(e.stdout),
                           !.error = OrUndefined(e.stderr)])

(* --------------------------- option values ----------------------------- *)
\* a JS value of an options field: its type and, by type, its content
Undef == [type |-> "undefined", b |-> FALSE, s |-> "", n |-> 0, l |-> <<>>, kv |-> <<>>]
Bool(b) == [Undef EXCEPT !.type = "boolean", !.b = b]
Str(s) == [Undef EXCEPT !.type = "string", !.s = s]
Num(n) == [Undef EXCEPT !.type = "number", !.n = n]
NaN == [Undef EXCEPT !.type = "NaN"]
Array(l) == [Undef EXCEPT !.type = "array", !.l = l]
Object(kv) == [Undef EXCEPT !.type = "object", !.kv = kv]

\* if (value)
JsTruthy(v) ==
    CASE v.type = "boolean" -> v.b
      [] v.type = "string" -> v.s # ""
      [] v.type = "number" -> v.n # 0
      [] v.type \in {"array", "object"} -> TRUE
      [] OTHER -> FALSE

\* String(value) and `${value}`
RECURSIVE JoinWith(_, _)
JoinWith(l, sep) ==
    IF Len(l) = 0 THEN ""
    ELSE IF Len(l) = 1 THEN l[1]
    ELSE l[1] \o sep \o JoinWith(Tail(l), sep)

ToStr(v) ==
    CASE v.type = "string" -> v.s
      [] v.type = "number" -> ToString(v.n)
      [] v.type = "NaN" -> "NaN"
      [] v.type = "boolean" -> IF v.b THEN "true" ELSE "false"
      [] v.type = "array" -> JoinWith(v.l, ",")
      [] v.type = "object" -> "[object Object]"
      [] OTHER -> "undefined"

\* JSON.stringify of the values the model uses (texts without quotes or escapes)
JsonStringify(v) ==
    IF v.type = "string" THEN "\"" \o v.s \o "\"" ELSE ToStr(v)

\* Array.isArray(value) ? value : [value]
AsArray(v) == IF v.type = "array" THEN v.l ELSE <<ToStr(v)>>

\* a string of the asynchronous model as an option value, and back
FromPlain(s) == IF s = Undefined THEN Undef ELSE Str(s)
Plain(v) == IF v.type = "string" THEN v.s ELSE Undefined

\* the fields of PandocOptions
FieldNames ==
    {"from", "to", "output", "standalone", "template", "variables", "metadata",
     "css", "includeInHeader", "includeBeforeBody", "includeAfterBody", "toc",
     "tocDepth", "numberSections", "sectionDivs", "mathml", "mathjax", "katex",
     "highlightStyle", "selfContained", "bibliography", "csl",
     "citationAbbreviations", "filters", "luaFilters", "dataDir", "resourcePath",
     "requestHeaders", "noHighlight", "preserveTabs", "tabStop", "pdfEngine",
     "pdfEngineOpts", "referenceDoc", "referenceLinks", "referenceLocation",
     "extensions", "extractMedia", "failIfWarnings", "verbose", "quiet", "trace",
     "logFile", "listInputFormats", "listOutputFormats", "listExtensions",
     "listHighlightLanguages", "listHighlightStyles", "printDefaultTemplate",
     "printDefaultDataFile", "printHighlightStyle", "version", "help"}

\* options = {}
NoOptions == [f \in FieldNames |-> Undef]

(* ------------------------------ buildArgs ------------------------------ *)
\* if (v) args.push(flag)
Flag(v, flag) == IF JsTruthy(v) THEN <<flag>> ELSE <<>>

\* if (v) args.push(flag, v)
Scalar(v, flag) == IF JsTruthy(v) THEN <<flag, ToStr(v)>> ELSE <<>>

\* list.forEach((x) => args.push(flag, x))
Pairs(flag, l) ==
    [i \in 1..(2 * Len(l)) |-> IF i % 2 = 1 THEN flag ELSE l[i \div 2]]

\* if (v) { (Array.isArray(v) ? v : [v]).forEach((x) => args.push(flag, x)) }
Each(v, flag) == IF JsTruthy(v) THEN Pairs(flag, AsArray(v)) ELSE <<>>

\* if (v) args.push(flag, paths.join(":"))
JoinedAsEach(v, flag) == Each(v, flag)
JoinedOnce(v, flag) == IF JsTruthy(v) THEN <<flag, JoinWith(AsArray(v), ":")>> ELSE <<>>

\* Object.entries(v).forEach(([key, value]) => args.push(flag, `${key}=${value}`))
Entries(v, flag) ==
    IF JsTruthy(v)
    THEN Pairs(flag, [i \in 1..Len(v.kv) |-> v.kv[i][1] \o "=" \o ToStr(v.kv[i][2])])
    ELSE <<>>
MetaEntries(v, flag) ==
    IF JsTruthy(v)
    THEN Pairs(flag, [i \in 1..Len(v.kv) |->
                         v.kv[i][1] \o "=" \o JsonStringify(v.kv[i][2])])
    ELSE <<>>

\* mathjax and katex: a URL string, or true
UrlOrFlag(v, flag) ==
    IF ~JsTruthy(v) THEN <<>>
    ELSE IF v.type = "string" THEN <<flag, v.s>> ELSE <<flag>>

\* highlightStyle: false disables highlighting, a name selects a style
Highlight(v) ==
    IF v.type = "boolean" /\ ~v.b THEN <<"--no-highlight">>
    ELSE IF JsTruthy(v) THEN <<"--highlight-style", ToStr(v)>> ELSE <<>>

\* Pandoc.buildArgs(options)
BuildArgs(o) ==
    Scalar(o.from, "--from") \o Scalar(o.to, "--to") \o Scalar(o.output, "--output")
    \o Flag(o.standalone, "--standalone") \o Scalar(o.template, "--template")
    \o Entries(o.variables, "--variable") \o MetaEntries(o.metadata, "--metadata")
    \o Each(o.css, "--css") \o Each(o.includeInHeader, "--include-in-header")
    \o Each(o.includeBeforeBody, "--include-before-body")
    \o Each(o.includeAfterBody, "--include-after-body")
    \o Flag(o.toc, "--toc") \o Scalar(o.tocDepth, "--toc-depth")
    \o Flag(o.numberSections, "--number-sections")
    \o Flag(o.sectionDivs, "--section-divs")
    \o Flag(o.mathml, "--mathml") \o UrlOrFlag(o.mathjax, "--mathjax")
    \o UrlOrFlag(o.katex, "--katex") \o Highlight(o.highlightStyle)
    \o Flag(o.selfContained, "--self-contained")
    \o Each(o.bibliography, "--bibliography") \o Scalar(o.csl, "--csl")
    \o Scalar(o.citationAbbreviations, "--citation-abbreviations")
    \o Each(o.filters, "--filter") \o Each(o.luaFilters, "--lua-filter")
    \o Scalar(o.dataDir, "--data-dir")
    \o JoinedOnce(o.resourcePath, "--resource-path")
    \o Scalar(o.pdfEngine, "--pdf-engine")
    \o Each(o.pdfEngineOpts, "--pdf-engine-opt")
    \o Scalar(o.referenceDoc, "--reference-doc")
    \o Flag(o.referenceLinks, "--reference-links")
    \o Scalar(o.referenceLocation, "--reference-location")
    \o Scalar(o.extractMedia, "--extract-media")
    \o Flag(o.failIfWarnings, "--fail-if-warnings") \o Flag(o.verbose, "--verbose")
    \o Flag(o.quiet, "--quiet") \o Flag(o.trace, "--trace")
    \o Scalar(o.logFile, "--log")
    \o Flag(o.listInputFormats, "--list-input-formats")
    \o Flag(o.listOutputFormats, "--list-output-formats")
    \o Scalar(o.listExtensions, "--list-extensions")
    \o Flag(o.listHighlightLanguages, "--list-highlight-languages")
    \o Flag(o.listHighlightStyles, "--list-highlight-styles")
    \o Scalar(o.printDefaultTemplate, "--print-default-template")
    \o Scalar(o.printDefaultDataFile, "--print-default-data-file")
    \o Scalar(o.printHighlightStyle, "--print-highlight-style")
    \o Flag(o.version, "--version") \o Flag(o.help, "--help")

(* ------------------------------ task frames ---------------------------- *)
NoRet == [kind |-> "none", val |-> Undefined]
Value(v) == [kind |-> "value", val |-> v]
Throw(m) == [kind |-> "throw", val |-> m]

NoResult == [kind |-> "none", success |-> FALSE, output |-> Undefined,
             outputPath |-> Undefined, error |-> Undefined, warnings |-> Undef,
             version |-> Undefined, value |-> Undefined, via |-> "none"]

NoRun == [kind |-> "none", code |-> Null, stdout |-> "", stderr |-> ""]
RunOf(e) == [kind |-> e.outcome.kind, code |-> e.code, stdout |-> e.stdout,
             stderr |-> e.stderr]

IdleTask == [op |-> "idle", pc |-> "idle",
             outputArg |-> Undefined, inputPath |-> Undefined, exists |-> FALSE,
             extractMedia |-> Undefined, verbose |-> FALSE,
             input |-> Undefined,                    \* convert's input text
             outputPath |-> Undefined, cwd |-> Undefined, bin |-> Null,
             vpc |-> "none",                         \* getVersion frame
             gpc |-> "none", gi |-> 0, gpass |-> 0,  \* getBinaryPath frame
             gstart |-> Null, gprobes |-> 0, ginstalls |-> 0, gret |-> NoRet,
             retry |-> FALSE,         \* history: getBinaryPath called right after it threw
             inst |-> "none",                        \* installer child
             ret |-> NoRet,           \* settled promise the awaiting frame resumes on
             ex |-> NoExec,           \* latest execPandoc invocation
             spawned |-> {},          \* purposes of the children spawned in this call
             run |-> NoRun,           \* history: how the conversion child of this call ended
             res |-> NoResult]

\* options.input of an invocation: only convert passes one
InputOf(t, purpose) ==
    IF purpose = "convert" /\ t.op = "convert" THEN t.input ELSE Undefined

\* execPandoc(args, options, path): one child per invocation, its stdio all
\* pipes, its stdin served before the executor returns
CallExec(t, purpose, path, timeout) ==
    [t EXCEPT !.ex = SendInput(SpawnChild(purpose, path, timeout),
                               InputOf(t, purpose), TRUE),
              !.spawned = @ \cup {purpose}]

\* getBinaryPath up to its first await
CallGetBinaryPathFailureCached(t, cache) ==
    IF t.retry
    THEN [t EXCEPT !.ret = Throw(NotFoundMsg), !.gret = Throw(NotFoundMsg),
                   !.gstart = cache, !.gprobes = 0, !.ginstalls = 0]
    ELSE IF Truthy(cache)
    THEN [t EXCEPT !.ret = Value(cache), !.gret = Value(cache),
                   !.gstart = cache, !.gprobes = 0, !.ginstalls = 0]
    ELSE CallExec([t EXCEPT !.gpc = "probe", !.gi = 1, !.gpass = 1, !.gret = NoRet,
                            !.gstart = cache, !.gprobes = 1, !.ginstalls = 0],
                  "probe", possiblePaths[1], ProbeTimeout)
CallGetBinaryPathNoCache(t, cache) ==
    CallExec([t EXCEPT !.gpc = "probe", !.gi = 1, !.gpass = 1, !.gret = NoRet,
                       !.gstart = cache, !.gprobes = 1, !.ginstalls = 0],
             "probe", possiblePaths[1], ProbeTimeout)
CallGetBinaryPath(t, cache) ==
    IF Truthy(cache)
    THEN [t EXCEPT !.ret = Value(cache), !.gret = Value(cache),
                   !.gstart = cache, !.gprobes = 0, !.ginstalls = 0]
    ELSE CallGetBinaryPathNoCache(t, cache)

\* getVersion up to its first await
CallGetVersion(t, vcache, cache) ==
    IF Truthy(vcache)
    THEN [t EXCEPT !.ret = Value(vcache)]
    ELSE CallGetBinaryPath([t EXCEPT !.vpc = "path"], cache)

\* return from / throw out of the public operation
Finish(t, r) == [t EXCEPT !.pc = "done", !.ret = NoRet, !.res = r]
Returned(r) == [r EXCEPT !.kind = "returned"]
Thrown(m) == [NoResult EXCEPT !.kind = "thrown", !.error = m]

\* no entry point called for its argument list; nothing handed to execPandoc
NoCall == [entry |-> "none", inputPath |-> Undefined, outputPath |-> Undefined,
           from |-> Undefined, to |-> Undefined, options |-> NoOptions]
NoRequest == [made |-> FALSE, cwd |-> Undefined, args |-> <<>>]

\* the command line tool not run, no element visited, no preset called
NoCli == [pc |-> "none"]
NoElem == [tag |-> "none"]
NoVisit == [given |-> NoElem, visited |-> FALSE]
NoPreset == [name |-> "none"]

(* -------------------------------- Init --------------------------------- *)
Init ==
    /\ task = [c \in Tasks |-> IdleTask]
    /\ binaryPath = Null
    /\ version = Null
    /\ probeOk = {}
    /\ call = NoCall
    /\ request = NoRequest
    /\ hostCwd = HostCwd
    /\ cli = NoCli
    /\ elem = NoVisit
    /\ preset = NoPreset

\* what a step of the class does to the host's working directory: nothing (the
\* cwd option of spawn applies to the child alone)
HostCwdChdir(h, t) == IF Truthy(t.cwd) THEN t.cwd ELSE h
HostCwdAfter(h, t) == h

Step(c, t) ==
    /\ task' = [task EXCEPT ![c] = t]
    /\ hostCwd' = HostCwdAfter(hostCwd, t)
    /\ UNCHANGED <<call, request>>
    /\ UNCHANGED toolVars

Settled(e) == e.outcome.kind # "Pending"

(* --------------------------- child and timer --------------------------- *)
\* child.stdout.on("data"): stdout += data
ChildStdout(c) ==
    /\ task[c].ex.proc \in {"running", "exited", "killed"}
    /\ ~task[c].ex.closeEv
    /\ task[c].ex.nout < MaxChunks
    /\ \E d \in StdoutChunks :
         Step(c, [task[c] EXCEPT !.ex.stdout = @ \o d, !.ex.nout = @ + 1])
    /\ UNCHANGED <<binaryPath, version, probeOk>>

\* child.stderr.on("data"): stderr += data
ChildStderr(c) ==
    /\ task[c].ex.proc \in {"running", "exited", "killed"}
    /\ ~task[c].ex.closeEv
    /\ task[c].ex.nerr < MaxChunks
    /\ \E d \in StderrChunks :
         Step(c, [task[c] EXCEPT !.ex.stderr = @ \o d, !.ex.nerr = @ + 1])
    /\ UNCHANGED <<binaryPath, version, probeOk>>

\* the child exits by itself with some exit code (the 'close' event follows)
ChildExit(c) ==
    /\ task[c].ex.proc = "running"
    /\ \E code \in {"0", "1"} :
         Step(c, [task[c] EXCEPT !.ex.proc = "exited", !.ex.code = code])
    /\ UNCHANGED <<binaryPath, version, probeOk>>

\* the platform could not create the process: the 'error' event
ChildError(c) ==
    /\ task[c].ex.proc \in {"running", "killed"}
    /\ task[c].ex.nout = 0 /\ task[c].ex.nerr = 0
    /\ ~task[c].ex.errorEv /\ ~task[c].ex.closeEv
    /\ Step(c, [task[c] EXCEPT
                  !.ex = OnError([@ EXCEPT !.proc = "failed", !.code = "-2"])])
    /\ UNCHANGED <<binaryPath, version, probeOk>>

\* the 'close' event, after the child ended and its streams closed
ChildClose(c) ==
    /\ task[c].ex.proc \in {"exited", "killed", "failed"}
    /\ ~task[c].ex.closeEv
    /\ LET e == OnClose(task[c].ex) IN
         /\ Step(c, [task[c] EXCEPT !.ex = e])
         /\ probeOk' = IF e.purpose = "probe" /\ e.outcome.kind = "Completed"
                          /\ e.outcome.success
                       THEN probeOk \cup {e.path} ELSE probeOk
    /\ UNCHANGED <<binaryPath, version>>

\* the timer armed by execPandoc expires
TimerFire(c) ==
    /\ task[c].ex.timer = "armed"
    /\ Step(c, [task[c] EXCEPT !.ex = OnTimeout(@)])
    /\ UNCHANGED <<binaryPath, version, probeOk>>

(* ----------------------------- getBinaryPath --------------------------- *)
\* the continuation of getBinaryPath after the probe of candidate gi settled
ProbeSucceeded(e) == e.outcome.kind = "Completed" /\ e.outcome.success

CachedPathFirst(t) == possiblePaths[1]
CachedPath(t) == possiblePaths[t.gi]

AfterProbe(t) ==
    IF ProbeSucceeded(t.ex)
    THEN [t EXCEPT !.gpc = "none", !.ret = Value(CachedPath(t)),
                   !.gret = Value(CachedPath(t))]
    ELSE IF t.gi < Len(possiblePaths)
    THEN CallExec([t EXCEPT !.gi = @ + 1, !.gprobes = @ + 1],
                  "probe", possiblePaths[t.gi + 1], ProbeTimeout)
    ELSE IF t.gpass = 1
    THEN [t EXCEPT !.gpc = "install", !.inst = "running", !.ginstalls = @ + 1]
    ELSE [t EXCEPT !.gpc = "none", !.ret = Throw(NotFoundMsg),
                   !.gret = Throw(NotFoundMsg)]

ProbeSettled(c) ==
    /\ task[c].gpc = "probe"
    /\ Settled(task[c].ex)
    /\ Step(c, AfterProbe(task[c]))
    /\ binaryPath' = IF ProbeSucceeded(task[c].ex) THEN CachedPath(task[c])
                     ELSE binaryPath
    /\ UNCHANGED <<version, probeOk>>


\* the installer script's child ends: 'close' with its exit code, or 'error'
InstallerClose(c) ==
    /\ task[c].inst = "running"
    /\ \E code \in {"0", "1"} :
         Step(c, [task[c] EXCEPT !.inst = IF code = "0" THEN "resolved"
                                          ELSE "rejected: failed with code"])
    /\ UNCHANGED <<binaryPath, version, probeOk>>

InstallerError(c) ==
    /\ task[c].inst = "running"
    /\ Step(c, [task[c] EXCEPT !.inst = "rejected: error"])
    /\ UNCHANGED <<binaryPath, version, probeOk>>

\* the continuation of getBinaryPath after installPandocBinary settled
AfterInstallSurfaced(t) ==
    IF t.inst = "resolved"
    THEN CallExec([t EXCEPT !.gpc = "probe", !.gi = 1, !.gpass = 2, !.inst = "none",
                            !.gprobes = @ + 1],
                  "probe", possiblePaths[1], ProbeTimeout)
    ELSE [t EXCEPT !.gpc = "none", !.inst = "none",
                   !.ret = Throw("Installation script failed with code 1"),
                   !.gret = Throw("Installation script failed with code 1")]
AfterInstall(t) ==
    IF t.inst = "resolved"
    THEN CallExec([t EXCEPT !.gpc = "probe", !.gi = 1, !.gpass = 2, !.inst = "none",
                            !.gprobes = @ + 1],
                  "probe", possiblePaths[1], ProbeTimeout)
    ELSE [t EXCEPT !.gpc = "none", !.inst = "none", !.ret = Throw(NotFoundMsg),
                   !.gret = Throw(NotFoundMsg)]

InstallSettled(c) ==
    /\ task[c].gpc = "install"
    /\ task[c].inst \notin {"none", "running"}
    /\ Step(c, AfterInstall(task[c]))
    /\ UNCHANGED <<binaryPath, version, probeOk>>

(* ------------------------------ getVersion ----------------------------- *)
\* await getBinaryPath() inside getVersion returned or threw
VersionGotPath(c) ==
    /\ task[c].vpc = "path"
    /\ task[c].gpc = "none"
    /\ task[c].ret.kind # "none"
    /\ Step(c, IF task[c].ret.kind = "throw"
               THEN [task[c] EXCEPT !.vpc = "none"]
               ELSE CallExec([task[c] EXCEPT !.vpc = "exec", !.ret = NoRet],
                             "version", task[c].ret.val, 0))
    /\ UNCHANGED <<binaryPath, version, probeOk>>

\* the rest of getVersion once execPandoc(["--version"]) settled
VersionOutcome(o) ==
    IF o.kind # "Completed" THEN Throw(o.message)
    ELSE IF ~o.success \/ ~Truthy(o.output) THEN Throw(VersionFailMsg)
    ELSE Value(ParseVersion(o.output))

VersionExecSettled(c) ==
    /\ task[c].vpc = "exec"
    /\ Settled(task[c].ex)
    /\ LET r == VersionOutcome(task[c].ex.outcome) IN
         /\ Step(c, [task[c] EXCEPT !.vpc = "none", !.ret = r])
         /\ version' = IF r.kind = "value" THEN r.val ELSE version
    /\ UNCHANGED <<binaryPath, probeOk>>

(* ---------------------------- parseWarnings ---------------------------- *)
\* String.prototype.split("\n")
RECURSIVE SplitLines(_)
SplitLines(s) ==
    LET N == {i \in 1..Len(s) : SubSeq(s, i, i) = "\n"} IN
    IF N = {} THEN <<s>>
    ELSE LET i == CHOOSE j \in N : \A k \in N : j <= k IN
         <<SubSeq(s, 1, i - 1)>> \o SplitLines(SubSeq(s, i + 1, Len(s)))

\* String.prototype.toLowerCase, on ASCII letters
UpperCase == "ABCDEFGHIJKLMNOPQRSTUVWXYZ"
LowerCase == "abcdefghijklmnopqrstuvwxyz"
LowerChar(ch) ==
    LET I == {i \in 1..Len(UpperCase) : SubSeq(UpperCase, i, i) = ch} IN
    IF I = {} THEN ch ELSE LET i == CHOOSE j \in I : TRUE IN SubSeq(LowerCase, i, i)

RECURSIVE ToLowerCase(_)
ToLowerCase(s) ==
    IF Len(s) = 0 THEN ""
    ELSE LowerChar(SubSeq(s, 1, 1)) \o ToLowerCase(SubSeq(s, 2, Len(s)))

\* String.prototype.trim
IsSpace(ch) == ch \in {" ", "\t", "\n", "\r"}
Trim(s) ==
    LET K == {i \in 1..Len(s) : ~IsSpace(SubSeq(s, i, i))} IN
    IF K = {} THEN ""
    ELSE SubSeq(s, CHOOSE i \in K : \A j \in K : i <= j,
                   CHOOSE i \in K : \A j \in K : j <= i)

IsWarningLine(line) ==
    Contains(line, "[WARNING]") \/ Contains(ToLowerCase(line), "warning:")

\* Pandoc.parseWarnings(output)
ParseWarnings(output) ==
    LET lines == SelectSeq(SplitLines(output), IsWarningLine) IN
    [i \in 1..Len(lines) |-> Trim(lines[i])]

\* x || ""
OrEmpty(v) == IF Truthy(v) THEN v ELSE ""

(* ------------------------------- paths --------------------------------- *)
\* index of the last "/" of p, 0 when there is none
LastSlash(p) ==
    LET S == {i \in 1..Len(p) : SubSeq(p, i, i) = "/"} IN
    IF S = {} THEN 0 ELSE CHOOSE i \in S : \A j \in S : j <= i

\* path.basename, path.dirname, path.join for paths without "." or ".." segments
Basename(p) == SubSeq(p, LastSlash(p) + 1, Len(p))
Dirname(p) ==
    IF LastSlash(p) = 0 THEN "."
    ELSE IF LastSlash(p) = 1 THEN "/"
    ELSE SubSeq(p, 1, LastSlash(p) - 1)
Join(a, b) == IF a = "/" THEN a \o b ELSE a \o "/" \o b

(* -------------------------- public operations -------------------------- *)
CanStart(c) == task[c].pc \in {"idle", "done"}

\* the awaited getBinaryPath()/getVersion() of the operation itself has settled
Awaited(c, pc) ==
    /\ task[c].pc = pc
    /\ task[c].vpc = "none"
    /\ task[c].gpc = "none"
    /\ task[c].ret.kind # "none"

ConvertTimeoutOf(t) == IF t.verbose THEN VerboseTimeout ELSE ConvertTimeout

\* the object literal convert builds from a completed run, before its version
ConvertResult(t, o) ==
    [NoResult EXCEPT !.kind = "building", !.via = "try", !.output = o.output,
                     !.outputPath = t.outputArg, !.success = o.success,
                     !.error = o.error,
                     !.warnings = Array(ParseWarnings(OrEmpty(o.output)))]

\* the object literal of the catch blocks, before its version
CatchResultNoMessage(m) ==
    [NoResult EXCEPT !.kind = "building", !.via = "catch", !.success = FALSE]
CatchResult(m) ==
    [NoResult EXCEPT !.kind = "building", !.via = "catch", !.success = FALSE,
                     !.error = m]

\* Pandoc.convert(input, options)
\* the input texts a caller passes to convert
Inputs == {"", "# Hi"}

StartConvert(c) ==
    /\ CanStart(c)
    /\ \E out \in {Undefined, "out.html"}, verbose \in BOOLEAN, input \in Inputs :
         Step(c, CallGetBinaryPath([IdleTask EXCEPT !.op = "convert", !.pc = "cv_path",
                                                   !.outputArg = out, !.input = input,
                                                   !.verbose = verbose],
                                   binaryPath))
    /\ UNCHANGED <<binaryPath, version, probeOk>>

ConvertGotPath(c) ==
    /\ Awaited(c, "cv_path")
    /\ Step(c, IF task[c].ret.kind = "throw"
               THEN Finish(task[c], Thrown(task[c].ret.val))
               ELSE CallExec([task[c] EXCEPT !.pc = "cv_exec", !.ret = NoRet],
                             "convert", task[c].ret.val, ConvertTimeoutOf(task[c])))
    /\ UNCHANGED <<binaryPath, version, probeOk>>

ConvertExecSettled(c) ==
    /\ task[c].pc = "cv_exec"
    /\ Settled(task[c].ex)
    /\ LET o == task[c].ex.outcome IN
       Step(c, IF o.kind = "Completed"
               THEN CallGetVersion([task[c] EXCEPT !.pc = "cv_version",
                                                   !.run = RunOf(task[c].ex),
                                                   !.res = ConvertResult(task[c], o)],
                                   version, binaryPath)
               ELSE CallGetVersion([task[c] EXCEPT !.pc = "cv_catch",
                                                   !.run = RunOf(task[c].ex),
                                                   !.res = CatchResult(o.message)],
                                   version, binaryPath))
    /\ UNCHANGED <<binaryPath, version, probeOk>>

\* await getVersion() inside the try block settled
ConvertGotVersion(c) ==
    /\ Awaited(c, "cv_version")
    /\ LET r == task[c].ret IN
       Step(c, IF r.kind = "value"
               THEN Finish(task[c], Returned([task[c].res EXCEPT !.version = r.val]))
               ELSE CallGetVersion([task[c] EXCEPT !.pc = "cv_catch", !.ret = NoRet,
                                                   !.res = CatchResult(r.val)],
                                   version, binaryPath))
    /\ UNCHANGED <<binaryPath, version, probeOk>>

\* await getVersion() inside the catch block settled
ConvertCatchGotVersion(c) ==
    /\ Awaited(c, "cv_catch")
    /\ LET r == task[c].ret IN
       Step(c, IF r.kind = "value"
               THEN Finish(task[c], Returned([task[c].res EXCEPT !.version = r.val]))
               ELSE Finish(task[c], Thrown(r.val)))
    /\ UNCHANGED <<binaryPath, version, probeOk>>

\* Pandoc.convertFile(inputPath, outputPath, options)
StartConvertFile(c) ==
    /\ CanStart(c)
    /\ \E exists \in BOOLEAN, out \in {Undefined, "out/book.md"},
          media \in {Undefined, "./media"}, verbose \in BOOLEAN :
         Step(c, CallGetBinaryPath([IdleTask EXCEPT !.op = "convertFile",
                                                   !.pc = "cf_path",
                                                   !.inputPath = "in.epub",
                                                   !.exists = exists,
                                                   !.outputArg = out,
                                                   !.extractMedia = media,
                                                   !.verbose = verbose],
                                   binaryPath))
    /\ UNCHANGED <<binaryPath, version, probeOk>>

\* await getBinaryPath() settled; fs.access(resolvedInputPath) is started
FileGotPath(c) ==
    /\ Awaited(c, "cf_path")
    /\ Step(c, IF task[c].ret.kind = "throw"
               THEN Finish(task[c], Thrown(task[c].ret.val))
               ELSE [task[c] EXCEPT !.pc = "cf_access", !.ret = NoRet,
                                    !.bin = task[c].ret.val])
    /\ UNCHANGED <<binaryPath, version, probeOk>>

\* the object literal returned when fs.access fails, before its version
NotFoundResult(p) ==
    [NoResult EXCEPT !.kind = "building", !.via = "notfound", !.success = FALSE,
                     !.error = InputNotFoundMsg(p)]

\* the working directory and output argument of the run
Relocates(t) == Truthy(t.extractMedia) /\ Truthy(t.outputArg)
RunCwd(t) == IF Relocates(t) THEN Dirname(ResolvePath(t.outputArg)) ELSE Undefined
RunOutput(t) == IF Relocates(t) THEN Basename(t.outputArg) ELSE t.outputArg

\* fs.access settled: the file is missing, or the run is started
FileAccessDone(c) ==
    /\ task[c].pc = "cf_access"
    /\ LET t == task[c] IN
       Step(c, IF ~t.exists
               THEN CallGetVersion(
                        [t EXCEPT !.pc = "cf_notfound",
                                  !.res = NotFoundResult(ResolvePath(t.inputPath))],
                        version, binaryPath)
               ELSE CallExec([t EXCEPT !.pc = "cf_exec", !.cwd = RunCwd(t),
                                       !.outputPath = RunOutput(t)],
                             "convert", t.bin, ConvertTimeoutOf(t)))
    /\ UNCHANGED <<binaryPath, version, probeOk>>

\* await getVersion() of the input-not-found result settled
FileNotFoundGotVersion(c) ==
    /\ Awaited(c, "cf_notfound")
    /\ LET r == task[c].ret IN
       Step(c, IF r.kind = "value"
               THEN Finish(task[c], Returned([task[c].res EXCEPT !.version = r.val]))
               ELSE Finish(task[c], Thrown(r.val)))
    /\ UNCHANGED <<binaryPath, version, probeOk>>

\* the object literal convertFile builds from a completed run, before its version
FileResultRelative(t, o) ==
    [NoResult EXCEPT !.kind = "building", !.via = "try",
                     !.output = IF Truthy(t.outputPath) THEN Undefined ELSE o.output,
                     !.outputPath = t.outputPath,
                     !.success = o.success, !.error = o.error,
                     !.warnings = Array(ParseWarnings(OrEmpty(o.output)))]
FileResultInline(t, o) ==
    [NoResult EXCEPT !.kind = "building", !.via = "try", !.output = o.output,
                     !.outputPath = IF Truthy(t.outputPath) /\ Truthy(t.cwd)
                                    THEN Join(t.cwd, t.outputPath)
                                    ELSE t.outputPath,
                     !.success = o.success, !.error = o.error,
                     !.warnings = Array(ParseWarnings(OrEmpty(o.output)))]
FileResult(t, o) ==
    [NoResult EXCEPT !.kind = "building", !.via = "try",
                     !.output = IF Truthy(t.outputPath) THEN Undefined ELSE o.output,
                     !.outputPath = IF Truthy(t.outputPath) /\ Truthy(t.cwd)
                                    THEN Join(t.cwd, t.outputPath)
                                    ELSE t.outputPath,
                     !.success = o.success, !.error = o.error,
                     !.warnings = Array(ParseWarnings(OrEmpty(o.output)))]

FileExecSettled(c) ==
    /\ task[c].pc = "cf_exec"
    /\ Settled(task[c].ex)
    /\ LET o == task[c].ex.outcome IN
       Step(c, IF o.kind = "Completed"
               THEN CallGetVersion([task[c] EXCEPT !.pc = "cf_version",
                                                   !.run = RunOf(task[c].ex),
                                                   !.res = FileResult(task[c], o)],
                                   version, binaryPath)
               ELSE CallGetVersion([task[c] EXCEPT !.pc = "cf_catch",
                                                   !.run = RunOf(task[c].ex),
                                                   !.res = CatchResult(o.message)],
                                   version, binaryPath))
    /\ UNCHANGED <<binaryPath, version, probeOk>>

FileGotVersion(c) ==
    /\ Awaited(c, "cf_version")
    /\ LET r == task[c].ret IN
       Step(c, IF r.kind = "value"
               THEN Finish(task[c], Returned([task[c].res EXCEPT !.version = r.val]))
               ELSE CallGetVersion([task[c] EXCEPT !.pc = "cf_catch", !.ret = NoRet,
                                                   !.res = CatchResult(r.val)],
                                   version, binaryPath))
    /\ UNCHANGED <<binaryPath, version, probeOk>>

FileCatchGotVersion(c) ==
    /\ Awaited(c, "cf_catch")
    /\ LET r == task[c].ret IN
       Step(c, IF r.kind = "value"
               THEN Finish(task[c], Returned([task[c].res EXCEPT !.version = r.val]))
               ELSE Finish(task[c], Thrown(r.val)))
    /\ UNCHANGED <<binaryPath, version, probeOk>>

\* Pandoc.listInputFormats(); listOutputFormats, listHighlightStyles and
\* getDefaultTemplate have the same shape
StartList(c) ==
    /\ CanStart(c)
    /\ Step(c, CallGetBinaryPath([IdleTask EXCEPT !.op = "list", !.pc = "ls_path"],
                                 binaryPath))
    /\ UNCHANGED <<binaryPath, version, probeOk>>

ListGotPath(c) ==
    /\ Awaited(c, "ls_path")
    /\ Step(c, IF task[c].ret.kind = "throw"
               THEN Finish(task[c], Thrown(task[c].ret.val))
               ELSE CallExec([task[c] EXCEPT !.pc = "ls_exec", !.ret = NoRet],
                             "list", task[c].ret.val, 0))
    /\ UNCHANGED <<binaryPath, version, probeOk>>

ListOutcome(o) ==
    IF o.kind # "Completed" THEN Thrown(o.message)
    ELSE IF ~o.success \/ ~Truthy(o.output) THEN Thrown(ListFailMsg)
    ELSE Returned([NoResult EXCEPT !.value = o.output])

ListExecSettled(c) ==
    /\ task[c].pc = "ls_exec"
    /\ Settled(task[c].ex)
    /\ Step(c, Finish(task[c], ListOutcome(task[c].ex.outcome)))
    /\ UNCHANGED <<binaryPath, version, probeOk>>

\* Pandoc.getVersion() called by the host
StartGetVersion(c) ==
    /\ CanStart(c)
    /\ Step(c, CallGetVersion([IdleTask EXCEPT !.op = "getVersion", !.pc = "gv_call"],
                              version, binaryPath))
    /\ UNCHANGED <<binaryPath, version, probeOk>>

GetVersionDone(c) ==
    /\ Awaited(c, "gv_call")
    /\ LET r == task[c].ret IN
       Step(c, IF r.kind = "value"
               THEN Finish(task[c], Returned([NoResult EXCEPT !.value = r.val]))
               ELSE Finish(task[c], Thrown(r.val)))
    /\ UNCHANGED <<binaryPath, version, probeOk>>

\* Pandoc.getBinaryPath() called by the host
StartGetBinaryPath(c) ==
    /\ CanStart(c)
    /\ Step(c, CallGetBinaryPath(
                   [IdleTask EXCEPT !.op = "getBinaryPath", !.pc = "gp_call",
                                    !.retry = /\ task[c].op = "getBinaryPath"
                                              /\ task[c].res.kind = "thrown"
                                              /\ task[c].res.error = NotFoundMsg],
                   binaryPath))
    /\ UNCHANGED <<binaryPath, version, probeOk>>

GetBinaryPathDone(c) ==
    /\ Awaited(c, "gp_call")
    /\ LET r == task[c].ret IN
       Step(c, IF r.kind = "value"
               THEN Finish(task[c], Returned([NoResult EXCEPT !.value = r.val]))
               ELSE Finish(task[c], Thrown(r.val)))
    /\ UNCHANGED <<binaryPath, version, probeOk>>

\* the records getBinaryInfo returns: from its try block and from its catch block
BinaryInfo(path, v) ==
    Returned([NoResult EXCEPT !.success = TRUE, !.value = path, !.version = v])
BinaryInfoRethrow(m) == Thrown(m)
BinaryInfoCatch(m) ==
    Returned([NoResult EXCEPT !.success = FALSE, !.value = "", !.version = ""])

\* isAvailable: binaryInfo.available, false if getBinaryInfo threw
IsAvailable(info) ==
    Returned([NoResult EXCEPT !.success = info.kind = "returned" /\ info.success])

\* what the entry point hands its caller: the record, or isAvailable's flag
InfoResult(t, info) == IF t.op = "isAvailable" THEN IsAvailable(info) ELSE info

\* Pandoc.getBinaryInfo(), called by the host or through isAvailable()
StartGetBinaryInfo(c) ==
    /\ CanStart(c)
    /\ \E op \in {"getBinaryInfo", "isAvailable"} :
         Step(c, CallGetBinaryPath([IdleTask EXCEPT !.op = op, !.pc = "bi_path"],
                                   binaryPath))
    /\ UNCHANGED <<binaryPath, version, probeOk>>

BinaryInfoGotPath(c) ==
    /\ Awaited(c, "bi_path")
    /\ LET t == task[c] IN
       Step(c, IF t.ret.kind = "throw"
               THEN Finish(t, InfoResult(t, BinaryInfoCatch(t.ret.val)))
               ELSE CallGetVersion([t EXCEPT !.pc = "bi_version", !.ret = NoRet,
                                             !.bin = t.ret.val],
                                   version, binaryPath))
    /\ UNCHANGED <<binaryPath, version, probeOk>>

BinaryInfoGotVersion(c) ==
    /\ Awaited(c, "bi_version")
    /\ LET t == task[c] IN
       Step(c, IF t.ret.kind = "throw"
               THEN Finish(t, InfoResult(t, BinaryInfoCatch(t.ret.val)))
               ELSE Finish(t, InfoResult(t, BinaryInfo(t.bin, t.ret.val))))
    /\ UNCHANGED <<binaryPath, version, probeOk>>

(* -------------------------- argument building ------------------------- *)
\* join(__dirname, "filters", "relative-links.lua")
FilterPath == "dist/filters/relative-links.lua"

\* { from, to, ...options }: the caller's own fields win over the defaults
WithFormats(from, to, o) ==
    [o EXCEPT !.from = IF @.type = "undefined" THEN FromPlain(from) ELSE @,
              !.to = IF @.type = "undefined" THEN FromPlain(to) ELSE @]

\* enhancedOptions of epubToMarkdown and epubToHtml
WithoutRelativeLinks(o) == o
WithRelativeLinksFirst(o) ==
    IF JsTruthy(o.extractMedia)
    THEN [o EXCEPT !.luaFilters =
              Array(<<FilterPath>> \o (IF JsTruthy(@) THEN AsArray(@) ELSE <<>>))]
    ELSE o
WithRelativeLinks(o) ==
    IF JsTruthy(o.extractMedia)
    THEN [o EXCEPT !.luaFilters =
              Array((IF JsTruthy(@) THEN AsArray(@) ELSE <<>>) \o <<FilterPath>>)]
    ELSE o

\* the parameters of convertFile that decide the relocation
FileParams(outputPath, o) ==
    [extractMedia |-> Plain(o.extractMedia), outputArg |-> outputPath]

\* what Pandoc.convertFile hands execPandoc: execOptions.cwd and args
FileArgsOutputAsGiven(inputPath, outputPath, o) ==
    <<ResolvePath(inputPath)>>
        \o BuildArgs([o EXCEPT !.output = FromPlain(outputPath)])
FileArgs(inputPath, outputPath, o) ==
    <<ResolvePath(inputPath)>>
        \o BuildArgs([o EXCEPT !.output =
                          FromPlain(RunOutput(FileParams(outputPath, o)))])

ConvertFileRequest(inputPath, outputPath, o) ==
    [made |-> TRUE, cwd |-> RunCwd(FileParams(outputPath, o)),
     args |-> FileArgs(inputPath, outputPath, o)]

Requested(r) ==
    /\ request' = r
    /\ UNCHANGED <<task, binaryPath, version, probeOk, call, hostCwd>>
    /\ UNCHANGED toolVars

\* Pandoc.buildArgs(options)
BuildArgsCall ==
    /\ call.entry = "buildArgs" /\ ~request.made
    /\ Requested([made |-> TRUE, cwd |-> Undefined, args |-> BuildArgs(call.options)])

\* Pandoc.convertFile(inputPath, outputPath, options), from the input check to spawn
ConvertFileCall ==
    /\ call.entry = "convertFile" /\ ~request.made
    /\ Requested(ConvertFileRequest(call.inputPath, call.outputPath, call.options))

\* convertFileFormat(inputPath, from, to, outputPath, options)
ConvertFileFormatCall ==
    /\ call.entry = "convertFileFormat" /\ ~request.made
    /\ Requested(ConvertFileRequest(call.inputPath, call.outputPath,
                                    WithFormats(call.from, call.to, call.options)))

\* epubToMarkdown(inputPath, outputPath, options)
EpubToMarkdownCall ==
    /\ call.entry = "epubToMarkdown" /\ ~request.made
    /\ Requested(ConvertFileRequest(call.inputPath, call.outputPath,
                      WithFormats("epub", "markdown", WithRelativeLinks(call.options))))

\* epubToHtml(inputPath, outputPath, options)
EpubToHtmlCall ==
    /\ call.entry = "epubToHtml" /\ ~request.made
    /\ Requested(ConvertFileRequest(call.inputPath, call.outputPath,
                      WithFormats("epub", "html", WithRelativeLinks(call.options))))

\* the calls the argument-building specification starts from
BoolFields ==
    {"standalone", "toc", "numberSections", "sectionDivs", "mathml", "selfContained",
     "noHighlight", "preserveTabs", "referenceLinks", "failIfWarnings", "verbose",
     "quiet", "trace", "listInputFormats", "listOutputFormats",
     "listHighlightLanguages", "listHighlightStyles", "version", "help"}
ListFields ==
    {"css", "includeInHeader", "includeBeforeBody", "includeAfterBody",
     "bibliography", "filters", "luaFilters", "resourcePath", "pdfEngineOpts"}
FileEntries == {"convertFile", "convertFileFormat", "epubToMarkdown", "epubToHtml"}
Elements == {"a", "b"}

RECURSIVE SubsetsUpTo(_, _)
SubsetsUpTo(S, k) ==
    IF k = 0 THEN {{}}
    ELSE {T \cup {x} : T \in SubsetsUpTo(S, k - 1), x \in S} \cup {{}}

SeqsUpTo(S, n) == UNION {[1..k -> S] : k \in 0..n}

ListValues(n) == {Undef, Str(""), Str("a")} \cup {Array(l) : l \in SeqsUpTo(Elements, n)}

BoolOptions(k) ==
    {[f \in FieldNames |->
         IF f \in T THEN Bool(TRUE)
         ELSE IF f = x THEN Bool(FALSE)
         ELSE IF f = "highlightStyle" THEN h ELSE Undef] :
     T \in SubsetsUpTo(BoolFields, k), x \in BoolFields \cup {"none"},
     h \in {Undef, Bool(FALSE), Str("tango")}}

ListOptions(n) ==
    {[NoOptions EXCEPT ![f] = v, !.extractMedia = m] :
     f \in ListFields, v \in ListValues(n), m \in {Undef, Str("./media")}}

ScalarFields ==
    {"from", "to", "output", "template", "tocDepth", "csl", "citationAbbreviations",
     "dataDir", "pdfEngine", "referenceDoc", "referenceLocation", "extractMedia",
     "logFile", "listExtensions", "printDefaultTemplate", "printDefaultDataFile",
     "printHighlightStyle"}

ScalarValues(f) ==
    IF f = "tocDepth" THEN {Num(0), Num(3), Str("abc"), NaN}
    ELSE {Str("x"), Str("")}

ScalarOptions ==
    UNION {{[NoOptions EXCEPT ![f] = v, !.toc = t] :
               v \in ScalarValues(f), t \in {Undef, Bool(TRUE)}} :
           f \in ScalarFields}

Calls(k, n) ==
    {[NoCall EXCEPT !.entry = "buildArgs", !.options = o] :
         o \in BoolOptions(k) \cup ListOptions(n) \cup ScalarOptions}
    \cup {[NoCall EXCEPT !.entry = e, !.inputPath = i, !.outputPath = out,
                         !.from = "docx", !.to = "html",
                         !.options = [o EXCEPT !.output = g]] :
              e \in FileEntries, i \in {"in.epub", "/books/in.epub"},
              out \in {Undefined, "out/book.md"}, g \in {Undef, Str("other.md")},
              o \in ListOptions(n)}

ArgsInit ==
    /\ task = [c \in Tasks |-> IdleTask]
    /\ binaryPath = Null
    /\ version = Null
    /\ probeOk = {}
    /\ call \in Calls(MaxTrue, MaxLen)
    /\ request = NoRequest
    /\ hostCwd = HostCwd
    /\ cli = NoCli
    /\ elem = NoVisit
    /\ preset = NoPreset

(* ---------------------------- specification ---------------------------- *)
\* the steps of the child, the timer and the installer of caller c
ProcessStep(c) ==
    \/ ChildStdout(c) \/ ChildStderr(c) \/ ChildExit(c) \/ ChildError(c)
    \/ ChildClose(c) \/ TimerFire(c)
    \/ InstallerClose(c) \/ InstallerError(c)

\* the continuations of getBinaryPath and getVersion
ResolveStep(c) ==
    \/ ProbeSettled(c) \/ InstallSettled(c)
    \/ VersionGotPath(c) \/ VersionExecSettled(c)

\* the public operations
OperationStep(c) ==
    \/ StartConvert(c) \/ ConvertGotPath(c) \/ ConvertExecSettled(c)
    \/ ConvertGotVersion(c) \/ ConvertCatchGotVersion(c)
    \/ StartConvertFile(c) \/ FileGotPath(c) \/ FileAccessDone(c)
    \/ FileNotFoundGotVersion(c) \/ FileExecSettled(c)
    \/ FileGotVersion(c) \/ FileCatchGotVersion(c)
    \/ StartList(c) \/ ListGotPath(c) \/ ListExecSettled(c)
    \/ StartGetVersion(c) \/ GetVersionDone(c)
    \/ StartGetBinaryPath(c) \/ GetBinaryPathDone(c)
    \/ StartGetBinaryInfo(c) \/ BinaryInfoGotPath(c) \/ BinaryInfoGotVersion(c)

\* one caller performing any sequence of public operations
Next == OperationStep("t1") \/ ResolveStep("t1") \/ ProcessStep("t1")

Spec == Init /\ [][Next]_vars

\* the same, with what the event loop guarantees: a settled promise's continuation
\* runs, an armed timer expires, an ended child's 'close' event is delivered.
\* Nothing makes a child (or the installer) exit.
Progress(c) ==
    \/ ConvertGotPath(c) \/ ConvertExecSettled(c)
    \/ ConvertGotVersion(c) \/ ConvertCatchGotVersion(c)
    \/ FileGotPath(c) \/ FileAccessDone(c)
    \/ FileNotFoundGotVersion(c) \/ FileExecSettled(c)
    \/ FileGotVersion(c) \/ FileCatchGotVersion(c)
    \/ ListGotPath(c) \/ ListExecSettled(c)
    \/ GetVersionDone(c) \/ GetBinaryPathDone(c)
    \/ BinaryInfoGotPath(c) \/ BinaryInfoGotVersion(c)
    \/ ResolveStep(c)
    \/ ChildClose(c) \/ TimerFire(c)

FairSpec == Spec /\ WF_vars(Progress("t1"))

\* two callers resolving the binary concurrently
RaceNext ==
    \E c \in Tasks :
        \/ StartGetBinaryPath(c) \/ GetBinaryPathDone(c)
        \/ ProbeSettled(c) \/ InstallSettled(c)
        \/ InstallerClose(c) \/ InstallerError(c)
        \/ ChildStdout(c) \/ ChildStderr(c) \/ ChildExit(c) \/ ChildError(c)
        \/ ChildClose(c) \/ TimerFire(c)

RaceSpec == Init /\ [][RaceNext]_vars

\* the argument list of one call of an entry point
ArgsNext ==
    \/ BuildArgsCall \/ ConvertFileCall \/ ConvertFileFormatCall
    \/ EpubToMarkdownCall \/ EpubToHtmlCall

ArgsSpec == ArgsInit /\ [][ArgsNext]_vars

(* --------------------------- command line tool -------------------------- *)
\* null as an option value
NullV == [Undef EXCEPT !.type = "null"]

\* the options object parseArgs starts from
CliNullFields ==
    {"from", "output", "template", "tocDepth", "highlightStyle", "pdfEngine", "csl"}
CliFalseFields ==
    {"standalone", "toc", "numberSections", "noHighlight", "mathml", "mathjax",
     "katex", "selfContained", "verbose", "quiet", "help", "version"}
CliListFields == {"css", "bibliography", "filters", "luaFilters"}
CliDefaults ==
    [f \in FieldNames |->
        CASE f \in CliNullFields -> NullV
          [] f = "to" -> Str("html")
          [] f \in CliFalseFields -> Bool(FALSE)
          [] f \in CliListFields -> Array(<<>>)
          [] f \in {"variables", "metadata"} -> Object(<<>>)
          [] OTHER -> Undef]

\* the cases of parseArgs' switch, by what they do with the options
CliSwitches ==
    {<<"-h", "help">>, <<"--help", "help">>, <<"--version", "version">>,
     <<"-s", "standalone">>, <<"--standalone", "standalone">>, <<"--toc", "toc">>,
     <<"--number-sections", "numberSections">>, <<"--no-highlight", "noHighlight">>,
     <<"--mathml", "mathml">>, <<"--mathjax", "mathjax">>, <<"--katex", "katex">>,
     <<"--self-contained", "selfContained">>, <<"--verbose", "verbose">>,
     <<"--quiet", "quiet">>}
CliValued ==
    {<<"-f", "from">>, <<"--from", "from">>, <<"-t", "to">>, <<"--to", "to">>,
     <<"-o", "output">>, <<"--output", "output">>, <<"--template", "template">>,
     <<"--highlight-style", "highlightStyle">>, <<"--pdf-engine", "pdfEngine">>,
     <<"--csl", "csl">>}
CliPushed ==
    {<<"--css", "css">>, <<"--bibliography", "bibliography">>,
     <<"--filter", "filters">>, <<"--lua-filter", "luaFilters">>}
CliFieldOf(table, arg) == (CHOOSE p \in table : p[1] = arg)[2]
CliHas(table, arg) == \E p \in table : p[1] = arg

\* String.prototype.split(sep, limit)
RECURSIVE SplitAll(_, _)
SplitAll(s, sep) ==
    LET P == {i \in 1..Len(s) : SubSeq(s, i, i) = sep} IN
    IF P = {} THEN <<s>>
    ELSE LET p == CHOOSE i \in P : \A j \in P : i <= j IN
         <<SubSeq(s, 1, p - 1)>> \o SplitAll(SubSeq(s, p + 1, Len(s)), sep)
Split(s, sep, limit) ==
    LET all == SplitAll(s, sep) IN
    SubSeq(all, 1, IF Len(all) < limit THEN Len(all) ELSE limit)

\* pair[1] || "" of a split result (pair[1] is its second piece)
SecondOrEmpty(pair) == IF Len(pair) >= 2 THEN pair[2] ELSE ""

\* parseInt of a command line argument: its leading decimal digits
Digits == "0123456789"
DigitValue(ch) == (CHOOSE i \in 1..10 : SubSeq(Digits, i, i) = ch) - 1
IsDigit(ch) == \E i \in 1..10 : SubSeq(Digits, i, i) = ch
RECURSIVE LeadingDigits(_, _, _)
LeadingDigits(s, i, acc) ==
    IF i <= Len(s) /\ IsDigit(SubSeq(s, i, i))
    THEN LeadingDigits(s, i + 1, 10 * acc + DigitValue(SubSeq(s, i, i)))
    ELSE acc
ParseInt(s) ==
    IF s = Undefined \/ Len(s) = 0 \/ ~IsDigit(SubSeq(s, 1, 1)) THEN NaN
    ELSE Num(LeadingDigits(s, 1, 0))

\* object[key] = value: the value of an own key replaced in place, a new key last
SetProperty(kv, key, value) ==
    IF \E i \in 1..Len(kv) : kv[i][1] = key
    THEN [i \in 1..Len(kv) |-> IF kv[i][1] = key THEN <<key, value>> ELSE kv[i]]
    ELSE Append(kv, <<key, value>>)

\* a const of the switch's block before its declaration has run
Uninitialized == [type |-> "uninitialized"]
SplitOfUndefinedMsg == "Cannot read properties of undefined (reading 'split')"
VarPairMsg == "Cannot access 'varPair' before initialization"

\* args[++i], undefined past the end
ArgAt(args, i) == IF i <= Len(args) THEN args[i] ELSE Undefined
ArgValue(a) == IF a = Undefined THEN Undef ELSE Str(a)

\* case "-V": const varPair = args[++i].split("=", 2);
\*            options.variables[varPair[0]] = varPair[1] || "";
SetVariable(options, pair) ==
    [options EXCEPT !.variables = Object(SetProperty(@.kv, pair[1], Str(SecondOrEmpty(pair))))]

\* case "-M": const metaPair = args[++i].split("=", 2);
\*            options.metadata[metaPair[0]] = varPair[1] || "";
\* varPair is the binding of the switch's block as this evaluation of the
\* switch finds it; reading it while uninitialized throws
SetMetadata(options, metaPair, varPair) ==
    IF varPair = Uninitialized
    THEN [thrown |-> TRUE, options |-> options]
    ELSE [thrown |-> FALSE,
          options |-> [options EXCEPT !.metadata =
                          Object(SetProperty(@.kv, metaPair[1],
                                             Str(SecondOrEmpty(varPair))))]]

\* parseArgs from index i on; how it ends: "return", "exit" (process.exit(1) on
\* an unknown option) or "throw"
RECURSIVE ParseFrom(_, _, _, _)
ParseFrom(args, i, options, inputFiles) ==
    LET End(how, m) == [how |-> how, options |-> options,
                        inputFiles |-> inputFiles, message |-> m]
        arg == args[i]
        val == ArgAt(args, i + 1)
    IN
    IF i > Len(args) THEN End("return", "")
    ELSE CASE CliHas(CliSwitches, arg) ->
                ParseFrom(args, i + 1,
                          [options EXCEPT ![CliFieldOf(CliSwitches, arg)] = Bool(TRUE)],
                          inputFiles)
           [] CliHas(CliValued, arg) ->
                ParseFrom(args, i + 2,
                          [options EXCEPT ![CliFieldOf(CliValued, arg)] = ArgValue(val)],
                          inputFiles)
           [] arg = "--toc-depth" ->
                ParseFrom(args, i + 2, [options EXCEPT !.tocDepth = ParseInt(val)],
                          inputFiles)
           [] CliHas(CliPushed, arg) ->
                ParseFrom(args, i + 2,
                          [options EXCEPT ![CliFieldOf(CliPushed, arg)] =
                              Array(Append(@.l, val))],
                          inputFiles)
           [] arg \in {"-V", "--variable"} ->
                IF val = Undefined THEN End("throw", SplitOfUndefinedMsg)
                ELSE ParseFrom(args, i + 2, SetVariable(options, Split(val, "=", 2)),
                               inputFiles)
           [] arg \in {"-M", "--metadata"} ->
                IF val = Undefined THEN End("throw", SplitOfUndefinedMsg)
                ELSE LET set == SetMetadata(options, Split(val, "=", 2), Uninitialized) IN
                     IF set.thrown THEN End("throw", VarPairMsg)
                     ELSE ParseFrom(args, i + 2, set.options, inputFiles)
           [] OTHER ->
                IF SubSeq(arg, 1, 1) = "-" THEN End("exit", "Unknown option: " \o arg)
                ELSE ParseFrom(args, i + 1, options, Append(inputFiles, arg))

parseArgs(args) == ParseFrom(args, 1, CliDefaults, <<>>)

\* path.extname of a path with a one-dot file name, and detectInputFormat
ExtName(p) ==
    LET D == {i \in 1..Len(p) : SubSeq(p, i, i) = "."} IN
    IF D = {} THEN "" ELSE SubSeq(p, CHOOSE i \in D : \A j \in D : j <= i, Len(p))
detectInputFormat(filename) ==
    LET ext == ToLowerCase(ExtName(filename)) IN
    CASE ext \in {".md", ".markdown", ".mdown", ".mkd", ".mkdn"} -> "markdown"
      [] ext \in {".html", ".htm"} -> "html"
      [] ext \in {".tex", ".latex"} -> "latex"
      [] ext \in {".rst", ".org", ".docx", ".epub", ".fb2", ".odt", ".rtf"} ->
            SubSeq(ext, 2, Len(ext))
      [] OTHER -> "markdown"

\* main's preparation of the options: the default format, one-element lists
\* collapsed and empty lists deleted, null and false keys deleted
Collapsed(v) ==
    IF v.type # "array" THEN v
    ELSE IF Len(v.l) = 1 THEN ArgValue(v.l[1])
    ELSE IF Len(v.l) = 0 THEN Undef
    ELSE v
Prepared(options, from) ==
    LET o == [options EXCEPT !.from = IF JsTruthy(@) THEN @ ELSE Str(from)] IN
    [f \in FieldNames |->
        LET v == IF f \in CliListFields THEN Collapsed(o[f]) ELSE o[f] IN
        IF v = NullV \/ v = Bool(FALSE) THEN Undef ELSE v]

\* one run of the tool.  exit is the exit code of the process, Null while it runs
CliRun == [pc |-> "start", argv |-> <<>>, parsed |-> parseArgs(<<>>),
           call |-> NoCall, input |-> "", awaited |-> "none", exists |-> TRUE,
           exit |-> Null, by |-> "none", printed |-> "none"]

\* the process ends with the event loop empty (code 0) or in process.exit(code)
Ended(r, by) == [r EXCEPT !.pc = "exited", !.exit = "0", !.by = by]
Exited(r, by) == [r EXCEPT !.pc = "exited", !.exit = "1", !.by = by]

\* main from its start to its first await, its return, or its exit
MainStart(r) ==
    LET p == parseArgs(r.argv)
        q == [r EXCEPT !.parsed = p]
    IN
    IF Len(r.argv) = 0 THEN Ended([r EXCEPT !.printed = "help"], "noArgs")
    ELSE IF p.how = "exit" THEN Exited(q, "unknownOption")
    ELSE IF p.how = "throw" THEN [q EXCEPT !.pc = "rejected"]
    ELSE IF JsTruthy(p.options.help) THEN Ended([q EXCEPT !.printed = "help"], "help")
    ELSE IF JsTruthy(p.options.version) THEN [q EXCEPT !.pc = "version"]
    ELSE IF Len(p.inputFiles) > 0
    THEN LET inputPath == ResolvePath(p.inputFiles[1])
             o == Prepared(p.options, detectInputFormat(inputPath)) IN
         [q EXCEPT !.pc = "convertFile",
                   !.call = [NoCall EXCEPT !.entry = "convertFile",
                                           !.inputPath = inputPath,
                                           !.outputPath = Plain(o.output),
                                           !.options = o]]
    ELSE [q EXCEPT !.pc = "stdin"]

\* what main does with the settled conversion
AfterConversionSuccessUnchecked(r, kind, success) ==
    IF kind = "thrown" THEN Exited([r EXCEPT !.awaited = "thrown"], "catch")
    ELSE Ended([r EXCEPT !.awaited = IF success THEN "success" ELSE "failure"], "return")
AfterConversion(r, kind, success) ==
    IF kind = "thrown" THEN Exited([r EXCEPT !.awaited = "thrown"], "catch")
    ELSE IF ~success THEN Exited([r EXCEPT !.awaited = "failure"], "failure")
    ELSE Ended([r EXCEPT !.awaited = "success"], "return")

\* the arguments of a run, and the ways convert and convertFile settle; exists
\* tells whether the input file was there, and a missing one never converts
MaxArgs == 4
Tokens == {"-h", "--version", "-o", "-V", "-M", "--bogus", "in.md", "k=v", "a=b"}
Settlements ==
    {[kind |-> "returned", success |-> TRUE, exists |-> TRUE],
     [kind |-> "returned", success |-> FALSE, exists |-> TRUE],
     [kind |-> "returned", success |-> FALSE, exists |-> FALSE],
     [kind |-> "thrown", success |-> FALSE, exists |-> TRUE]}

CliInit ==
    /\ task = [c \in Tasks |-> IdleTask]
    /\ binaryPath = Null
    /\ version = Null
    /\ probeOk = {}
    /\ call = NoCall
    /\ request = NoRequest
    /\ hostCwd = HostCwd
    /\ cli \in {[CliRun EXCEPT !.argv = a] : a \in SeqsUpTo(Tokens, MaxArgs)}
    /\ elem = NoVisit
    /\ preset = NoPreset

CliStep(r) == cli' = r /\ UNCHANGED <<libVars, elem, preset>>

\* main() called
CliMain ==
    /\ cli.pc = "start"
    /\ CliStep(MainStart(cli))

\* main().catch: the rejection of main ends the process
CliFatal ==
    /\ cli.pc = "rejected"
    /\ CliStep(Exited(cli, "fatal"))

\* await Pandoc.getVersion() settles, either way
CliVersionSettled ==
    /\ cli.pc = "version"
    /\ \E ok \in BOOLEAN :
         CliStep(Ended([cli EXCEPT !.awaited = IF ok THEN "success" ELSE "thrown",
                                   !.printed = IF ok THEN "pandoc v" ELSE "pandoc: not available"],
                       "version"))

\* await readStdin() settles
CliStdinRead ==
    /\ cli.pc = "stdin"
    /\ \E input \in Inputs :
         CliStep([cli EXCEPT !.pc = "convert", !.input = input,
                             !.call = [NoCall EXCEPT !.entry = "convert",
                                          !.options = Prepared(cli.parsed.options,
                                                               "markdown")]])

\* await Pandoc.convertFile(...) or Pandoc.convert(...) settles
CliConversionSettled ==
    /\ cli.pc \in {"convertFile", "convert"}
    /\ \E s \in Settlements :
         /\ cli.pc = "convert" => s.exists
         /\ CliStep(AfterConversion([cli EXCEPT !.exists = s.exists], s.kind, s.success))

CliNext ==
    \/ CliMain \/ CliFatal \/ CliVersionSettled \/ CliStdinRead \/ CliConversionSettled

CliSpec == CliInit /\ [][CliNext]_vars

(* ------------------------- relative-links.lua --------------------------- *)
\* nil; s:sub(i, j), which clamps its indices to the string
Nil == Undefined
Substring(s, i, j) ==
    LET lo == IF i < 1 THEN 1 ELSE i
        hi == IF j > Len(s) THEN Len(s) ELSE j
    IN IF lo > hi THEN "" ELSE SubSeq(s, lo, hi)
Backslash == "\\"
CharAt(s, i) == Substring(s, i, i)

\* the character classes of the patterns: [/\\] and %a
IsSeparator(ch) == ch = "/" \/ ch = Backslash
IsLetter(ch) ==
    Len(ch) = 1 /\ \E i \in 1..26 : CharAt(UpperCase, i) = ch \/ CharAt(LowerCase, i) = ch

\* s:match("^" .. prefix)
StartsWith(s, prefix) == Substring(s, 1, Len(prefix)) = prefix

is_absolute_any_separator(filepath) ==
    filepath # Nil /\ \E i \in 1..Len(filepath) : IsSeparator(CharAt(filepath, i))
is_absolute(filepath) ==
    IF filepath = Nil THEN FALSE
    ELSE IF CharAt(filepath, 1) = "/" THEN TRUE
    ELSE IF \/ /\ Len(filepath) >= 3
               /\ IsLetter(CharAt(filepath, 1))
               /\ CharAt(filepath, 2) = ":"
               /\ IsSeparator(CharAt(filepath, 3))
            \/ Substring(filepath, 1, 2) = Backslash \o Backslash
    THEN TRUE
    ELSE FALSE

\* s:gsub("\\", "/"), its first result
RECURSIVE Normalised(_)
Normalised(s) ==
    IF Len(s) = 0 THEN ""
    ELSE (IF CharAt(s, 1) = Backslash THEN "/" ELSE CharAt(s, 1))
             \o Normalised(Substring(s, 2, Len(s)))

\* the least element of a non-empty set of positions: the leftmost match
Leftmost(P) == CHOOSE i \in P : \A j \in P : i <= j

\* s:match("[/\\](" .. dir .. "[/\\].+)$"): nil, or the capture
MatchDirectory(s, dir) ==
    LET n == Len(dir)
        P == {i \in 1..Len(s) :
                 /\ IsSeparator(CharAt(s, i))
                 /\ Substring(s, i + 1, i + n) = dir
                 /\ i + n + 1 < Len(s)
                 /\ IsSeparator(CharAt(s, i + n + 1))}
    IN IF P = {} THEN Nil ELSE Substring(s, Leftmost(P) + 1, Len(s))

\* s:match("[/\\]([^/\\]+[/\\][^/\\]+)$"): nil, or the capture
MatchTwoLevels(s) ==
    LET P == {i \in 1..Len(s) :
                 /\ IsSeparator(CharAt(s, i))
                 /\ \E k \in (i + 2)..(Len(s) - 1) :
                        /\ IsSeparator(CharAt(s, k))
                        /\ \A j \in (i + 1)..Len(s) :
                               j # k => ~IsSeparator(CharAt(s, j))}
    IN IF P = {} THEN Nil ELSE Substring(s, Leftmost(P) + 1, Len(s))

\* s:match("[^/\\]+$"): nil, or the match
MatchFilename(s) ==
    LET P == {i \in 1..Len(s) : \A j \in i..Len(s) : ~IsSeparator(CharAt(s, j))}
    IN IF P = {} THEN Nil ELSE Substring(s, Leftmost(P), Len(s))

\* the directories tried, media first and then the asset_patterns in order
asset_patterns == <<"assets", "images", "img", "files">>
RECURSIVE FirstDirectory(_, _)
FirstDirectory(s, dirs) ==
    IF Len(dirs) = 0 THEN Nil
    ELSE IF MatchDirectory(s, Head(dirs)) # Nil THEN MatchDirectory(s, Head(dirs))
    ELSE FirstDirectory(s, Tail(dirs))

extract_filename_only(filepath) ==
    IF filepath = Nil \/ filepath = "" THEN filepath
    ELSE IF MatchFilename(filepath) # Nil THEN MatchFilename(filepath)
    ELSE filepath
extract_relative_path(filepath) ==
    IF filepath = Nil \/ filepath = "" THEN filepath
    ELSE IF MatchDirectory(filepath, "media") # Nil
    THEN Normalised(MatchDirectory(filepath, "media"))
    ELSE IF FirstDirectory(filepath, asset_patterns) # Nil
    THEN Normalised(FirstDirectory(filepath, asset_patterns))
    ELSE IF MatchTwoLevels(filepath) # Nil THEN Normalised(MatchTwoLevels(filepath))
    ELSE IF MatchFilename(filepath) # Nil THEN MatchFilename(filepath)
    ELSE filepath

make_relative_unprefixed(filepath) ==
    IF filepath = Nil \/ filepath = "" THEN filepath
    ELSE IF ~is_absolute(filepath) THEN filepath
    ELSE extract_relative_path(filepath)
make_relative(filepath) ==
    IF filepath = Nil \/ filepath = "" THEN filepath
    ELSE IF ~is_absolute(filepath) THEN filepath
    ELSE LET relative == extract_relative_path(filepath) IN
         IF relative # Nil /\ ~StartsWith(relative, ".")
         THEN "./" \o relative
         ELSE relative

\* the filter functions
Image(el) ==
    IF el.src # Nil /\ is_absolute(el.src)
    THEN [el EXCEPT !.src = make_relative(el.src)]
    ELSE el
Link(el) ==
    IF el.target # Nil /\ is_absolute(el.target)
    THEN IF ~(StartsWith(el.target, "http://") \/ StartsWith(el.target, "https://"))
            /\ ~(StartsWith(el.target, "ftp://") \/ StartsWith(el.target, "ftps://"))
         THEN [el EXCEPT !.target = make_relative(el.target)]
         ELSE el
    ELSE el

\* an inline element of the document: its tag, its fields, the element as the
\* filter found it, and whether the filter has visited it
ImageElem(p) == [tag |-> "Image", src |-> p, target |-> Nil, title |-> "T",
                 caption |-> "alt", identifier |-> "id"]
LinkElem(p) == [tag |-> "Link", src |-> Nil, target |-> p, title |-> "T",
                caption |-> "text", identifier |-> "id"]

\* the paths of the documents filtered
MaxSegments == 3
Prefixes ==
    {"", "/", "\\", "\\\\", "C:\\", "c:/", "http://", "https://", "ftp://"}
Segments == {"media", "assets", "a", ".h"}
PathsFiltered(n) ==
    {pre \o JoinWith(segs, sep) \o (IF ends THEN sep ELSE "") :
         pre \in Prefixes, segs \in SeqsUpTo(Segments, n),
         sep \in {"/", Backslash}, ends \in BOOLEAN}
    \cup {"/home/user/project/media/chapter1/fig1.png", "https://example.com/img.png"}

LuaInit ==
    /\ task = [c \in Tasks |-> IdleTask]
    /\ binaryPath = Null
    /\ version = Null
    /\ probeOk = {}
    /\ call = NoCall
    /\ request = NoRequest
    /\ hostCwd = HostCwd
    /\ cli = NoCli
    /\ preset = NoPreset
    /\ elem \in {[given |-> e, now |-> e, visited |-> FALSE] :
                    e \in {ImageElem(p) : p \in PathsFiltered(MaxSegments)}
                          \cup {LinkElem(p) : p \in PathsFiltered(MaxSegments)}}

\* pandoc calls Image on an image
ImageVisit ==
    /\ ~elem.visited /\ elem.now.tag = "Image"
    /\ elem' = [elem EXCEPT !.now = Image(@), !.visited = TRUE]
    /\ UNCHANGED <<libVars, cli, preset>>

\* pandoc calls Link on a link
LinkVisit ==
    /\ ~elem.visited /\ elem.now.tag = "Link"
    /\ elem' = [elem EXCEPT !.now = Link(@), !.visited = TRUE]
    /\ UNCHANGED <<libVars, cli, preset>>

LuaNext == ImageVisit \/ LinkVisit

LuaSpec == LuaInit /\ [][LuaNext]_vars

(* ------------------------------- presets -------------------------------- *)
\* { ...target, ...source }: own properties of source set on target in order;
\* spreading undefined or null adds nothing
RECURSIVE SpreadPairs(_, _)
SpreadPairs(kv, pairs) ==
    IF Len(pairs) = 0 THEN kv
    ELSE SpreadPairs(SetProperty(kv, Head(pairs)[1], Head(pairs)[2]), Tail(pairs))
Spread(kv, source) == IF source.type = "object" THEN SpreadPairs(kv, source.kv) ELSE kv

\* object[key] of an options object, undefined when it has no such property
Get(o, key) ==
    IF o.type = "object" /\ \E i \in 1..Len(o.kv) : o.kv[i][1] = key
    THEN (o.kv[CHOOSE i \in 1..Len(o.kv) : o.kv[i][1] = key])[2]
    ELSE Undef

\* presets.resume(options = {})
ResumeVariables == <<<<"geometry", Str("margin=1in")>>, <<"fontsize", Str("11pt")>>>>
resume(options) ==
    LET o == IF options = Undef THEN Object(<<>>) ELSE options IN
    Object(Spread(<<<<"from", Str("markdown")>>, <<"to", Str("pdf")>>,
                    <<"standalone", Bool(TRUE)>>, <<"pdfEngine", Str("xelatex")>>,
                    <<"variables", Object(Spread(ResumeVariables, Get(o, "variables")))>>>>,
                  o))

\* the options callers pass: with or without an engine, without variables, with
\* variables undefined, with up to MaxVariables variables of distinct names
MaxVariables == 2
VariableNames == {"geometry", "fontsize", "author"}
VariableValues == {"12pt", "x"}
VariableObjects(n) ==
    {Object(kv) : kv \in
        {s \in SeqsUpTo({<<k, Str(v)>> : k \in VariableNames, v \in VariableValues},
                        n) :
            \A i, j \in 1..Len(s) : i # j => s[i][1] # s[j][1]}}
ResumeOptions(n) ==
    {Undef} \cup
    {Object(e \o v) :
        e \in {<<>>, <<<<"pdfEngine", Str("lualatex")>>>>},
        v \in {<<>>} \cup {<<<<"variables", x>>>> : x \in VariableObjects(n) \cup {Undef}}}

PresetInit ==
    /\ task = [c \in Tasks |-> IdleTask]
    /\ binaryPath = Null
    /\ version = Null
    /\ probeOk = {}
    /\ call = NoCall
    /\ request = NoRequest
    /\ hostCwd = HostCwd
    /\ cli = NoCli
    /\ elem = NoVisit
    /\ preset \in {[name |-> "resume", options |-> o, called |-> FALSE, result |-> Undef] :
                      o \in ResumeOptions(MaxVariables)}

\* presets.resume(options) called
ResumeCall ==
    /\ preset.name = "resume" /\ ~preset.called
    /\ preset' = [preset EXCEPT !.called = TRUE, !.result = resume(preset.options)]
    /\ UNCHANGED <<libVars, cli, elem>>

PresetNext == ResumeCall

PresetSpec == PresetInit /\ [][PresetNext]_vars

(* ------------------------------- claims -------------------------------- *)
IsConversion(t) == t.op \in {"convert", "convertFile"}
HasReturned(t) == t.pc = "done" /\ t.res.kind = "returned"
HasThrown(t) == t.pc = "done" /\ t.res.kind = "thrown"

EventStep(c) ==
    \/ ChildStdout(c) \/ ChildStderr(c) \/ ChildExit(c)
    \/ ChildError(c) \/ ChildClose(c) \/ TimerFire(c)

\* the outcome agrees with the events delivered so far
OutcomeMatchesEvents(e) ==
    /\ e.outcome.kind \in {"Pending", "Completed", "TimedOut", "SpawnFailed"}
    /\ Settled(e) <=> (e.closeEv \/ e.errorEv \/ e.timer = "fired")
    /\ e.outcome.kind = "Completed" => e.closeEv
    /\ e.outcome.kind = "TimedOut" =>
           e.timer = "fired" /\ e.outcome.message = TimeoutMsg(e.timeout)
    /\ e.outcome.kind = "SpawnFailed" =>
           e.errorEv /\ e.outcome.message = SpawnErrorMsg
    /\ e.spawns <= 1

\* C2: an invocation's outcome is settled by the first of timer expiry, 'error'
\* and 'close' as exactly one of Completed, TimedOut, SpawnFailed; no event
\* arriving later changes it, and no event spawns the child again.
C2_SettledOnce ==
    /\ [](\A c \in Tasks : OutcomeMatchesEvents(task[c].ex))
    /\ [][\A c \in Tasks :
            EventStep(c) /\ Settled(task[c].ex) =>
                /\ task'[c].ex.outcome = task[c].ex.outcome
                /\ task'[c].ex.spawns = task[c].ex.spawns]_vars

\* 'close' was delivered after the timeout had settled the invocation
C2_Witness ==
    \E c \in Tasks :
        task[c].ex.outcome.kind = "TimedOut" /\ task[c].ex.closeEv

\* C3: a timer that expires before 'close' sends SIGKILL, fails the invocation
\* with a message containing the configured duration and leaves no running
\* child; a child that closes first cancels the timer and is never sent a signal.
C3_TimeoutKills ==
    \A c \in Tasks :
        LET e == task[c].ex IN
        /\ e.timer = "fired" =>
               /\ e.signal = "SIGKILL"
               /\ e.proc # "running"
               /\ e.outcome.kind = "TimedOut"
               /\ e.timeout # 0
               /\ Contains(e.outcome.message, ToString(e.timeout))
        /\ e.closeEv => e.timer # "armed"
        /\ e.timer # "fired" => e.signal = "none"

\* the timer of a conversion expired while the child was running
C3_Witness ==
    \E c \in Tasks :
        LET e == task[c].ex IN
        /\ e.purpose = "convert" /\ e.timer = "fired" /\ e.proc = "killed"
        /\ e.closeEv

\* C4: every invocation of the binary made by a public operation eventually
\* settles, even if the child never exits.
C4_BoundedWait ==
    \A c \in Tasks : [](task[c].ex.proc # "none" => <>Settled(task[c].ex))

\* C5: convertFile on a missing input spawns no child at any point of the call
\* and returns success=false with an error containing the resolved input path.
C5_NoSpawnForMissingInput ==
    \A c \in Tasks :
        LET t == task[c] IN
        t.op = "convertFile" /\ ~t.exists =>
            /\ t.spawned = {}
            /\ t.pc = "done" =>
                   /\ t.res.kind = "returned" /\ ~t.res.success
                   /\ Contains(t.res.error, ResolvePath(t.inputPath))

\* C6: convertFile on a missing input always resolves to a failure result and
\* never rejects.
C6_MissingInputNeverThrows ==
    \A c \in Tasks :
        LET t == task[c] IN
        t.op = "convertFile" /\ ~t.exists /\ t.pc = "done" =>
            t.res.kind = "returned" /\ ~t.res.success

\* the error text of a result, an absent error read as the empty text
ErrorText(r) == IF r.error = Undefined THEN "" ELSE r.error

\* C7: when the conversion child exits, success is true iff the exit code is 0,
\* and on a nonzero exit convert and convertFile resolve with success=false and
\* the accumulated stderr as error.
C7_ExitCodeDecides ==
    \A c \in Tasks :
        LET t == task[c] IN
        IsConversion(t) /\ t.pc = "done" /\ t.run.kind = "Completed" =>
            /\ HasReturned(t) => (t.res.success <=> t.run.code = "0")
            /\ t.run.code # "0" =>
                   /\ HasReturned(t) /\ ~t.res.success
                   /\ ErrorText(t.res) = t.run.stderr

\* C8 as stated: a spawn failure of the conversion child reaches the caller of
\* convert or convertFile as a rejection carrying the OS error message.
C8_SpawnFailureThrown ==
    \A c \in Tasks :
        LET t == task[c] IN
        IsConversion(t) /\ t.pc = "done" /\ t.run.kind = "SpawnFailed" =>
            HasThrown(t) /\ t.res.error = SpawnErrorMsg

\* C8 amended: execPandoc rejects with the OS error, and convert and convertFile
\* catch it: they resolve with success=false, the OS error message as error and
\* no output; they reject only when the version is not cached and the version
\* query made for that result fails.
C8_SpawnFailureReturned ==
    \A c \in Tasks :
        LET t == task[c] IN
        /\ t.ex.outcome.kind = "SpawnFailed" => t.ex.outcome.message = SpawnErrorMsg
        /\ IsConversion(t) /\ t.pc = "done" /\ t.run.kind = "SpawnFailed" =>
               /\ HasReturned(t) \/ HasThrown(t)
               /\ HasReturned(t) =>
                      /\ ~t.res.success /\ t.res.error = SpawnErrorMsg
                      /\ ~Truthy(t.res.output) /\ ~Truthy(t.res.outputPath)
               /\ HasThrown(t) => ~Truthy(version)

\* a conversion whose child could not be spawned returned a result record
C8_Witness ==
    \E c \in Tasks :
        LET t == task[c] IN
        IsConversion(t) /\ HasReturned(t) /\ t.run.kind = "SpawnFailed"

\* C9: once the cache holds a path it holds that path in every later state.
C9_CacheStable == [][Truthy(binaryPath) => binaryPath' = binaryPath]_vars

Range(f) == {f[i] : i \in DOMAIN f}

\* C10: a getBinaryPath call that starts with the cache populated returns the
\* cached path, probing nothing and installing nothing; the cached path is a
\* candidate of the list one of whose probes succeeded.
C10_CachedPathReused ==
    /\ \A c \in Tasks :
           LET t == task[c] IN
           Truthy(t.gstart) =>
               /\ t.gprobes = 0 /\ t.ginstalls = 0
               /\ t.gpc = "none" /\ t.inst = "none"
               /\ t.gret = Value(t.gstart)
    /\ Truthy(binaryPath) =>
           binaryPath \in Range(possiblePaths) /\ binaryPath \in probeOk

\* a caller started getBinaryPath after another caller's probe had filled the
\* cache, and got the cached path back
C10_Witness ==
    \E c \in Tasks :
        LET t == task[c] IN
        /\ t.op = "getBinaryPath" /\ HasReturned(t)
        /\ Truthy(t.gstart) /\ t.res.value = t.gstart
        /\ t.spawned = {}

\* C11: a failed resolution is not cached.  The step in which getBinaryPath
\* throws binary-not-found leaves the cache empty; a getBinaryPath call made
\* right after such a failure resolves from scratch: it probes the candidates
\* in order from the first, returns (and caches) the first one whose probe
\* succeeds, runs the installer once when the first pass fails, and throws
\* only after the installer failed or a second full pass failed.
C11_FailureNotCached ==
    \A c \in Tasks :
        LET t == task[c] IN
        /\ t.gret = Throw(NotFoundMsg) => ~Truthy(binaryPath)
        /\ t.retry =>
               /\ t.gstart = Null /\ t.gprobes >= 1
               /\ t.gret.kind = "value" =>
                      /\ t.gret.val = possiblePaths[t.gi]
                      /\ t.gret.val \in probeOk /\ binaryPath = t.gret.val
                      /\ t.gprobes = (t.gpass - 1) * Len(possiblePaths) + t.gi
                      /\ t.ginstalls = t.gpass - 1
               /\ t.gret.kind = "throw" =>
                      /\ t.gret.val = NotFoundMsg /\ t.ginstalls = 1
                      /\ t.gprobes \in {Len(possiblePaths), 2 * Len(possiblePaths)}

\* getBinaryPath, called again right after it threw binary-not-found, found a
\* candidate that had become available and returned it
C11_Witness ==
    \E c \in Tasks :
        LET t == task[c] IN
        /\ t.op = "getBinaryPath" /\ t.retry /\ HasReturned(t)
        /\ t.res.value \in Range(possiblePaths) /\ binaryPath = t.res.value

\* C12: when no candidate resolves even after the installation attempt, and
\* also when the installer itself fails, getBinaryPath throws the
\* binary-not-found error and nothing else, and getBinaryPath, convert and the
\* list operations reject with that error, whose message contains "not found".
C12_NotFoundThrown ==
    \A c \in Tasks :
        LET t == task[c] IN
        /\ t.gret.kind = "throw" =>
               /\ t.gret.val = NotFoundMsg /\ Contains(t.gret.val, "not found")
               /\ t.ginstalls = 1
        /\ t.op \in {"getBinaryPath", "convert", "list"} /\ t.pc = "done"
              /\ t.gret.kind = "throw" =>
               HasThrown(t) /\ Contains(t.res.error, "not found")

\* convert or a list operation rejected after the installer had failed (no
\* second pass of probes was made)
C12_Witness ==
    \E c \in Tasks :
        LET t == task[c] IN
        /\ t.op \in {"convert", "list"} /\ HasThrown(t)
        /\ t.gpass = 1 /\ t.ginstalls = 1 /\ t.gprobes = Len(possiblePaths)
        /\ t.res.error = NotFoundMsg

\* C13: getBinaryInfo and isAvailable never throw.  getBinaryInfo returns
\* available=true with the resolved (non-empty) path and the (non-empty)
\* version, or available=false with path and version both the empty string;
\* isAvailable returns that flag, which is true exactly when the path and the
\* version were both obtained.
C13_InfoNeverThrows ==
    \A c \in Tasks :
        LET t == task[c] IN
        t.op \in {"getBinaryInfo", "isAvailable"} /\ t.pc = "done" =>
            /\ HasReturned(t)
            /\ t.res.success <=> (Truthy(binaryPath) /\ Truthy(version))
            /\ t.op = "getBinaryInfo" =>
                   IF t.res.success
                   THEN /\ t.res.value = binaryPath /\ Len(t.res.value) > 0
                        /\ t.res.version = version /\ Len(t.res.version) > 0
                   ELSE t.res.value = "" /\ t.res.version = ""

\* getBinaryInfo found the binary but the version query failed: the record says
\* unavailable and carries no path
C13_Witness ==
    \E c \in Tasks :
        LET t == task[c] IN
        /\ t.op = "getBinaryInfo" /\ HasReturned(t) /\ ~t.res.success
        /\ Truthy(binaryPath) /\ t.res.value = ""

\* the command-line flag of a boolean field and of a list-valued field
FlagOf(f) ==
    CASE f = "standalone" -> "--standalone"
      [] f = "toc" -> "--toc"
      [] f = "numberSections" -> "--number-sections"
      [] f = "sectionDivs" -> "--section-divs"
      [] f = "mathml" -> "--mathml"
      [] f = "selfContained" -> "--self-contained"
      [] f = "noHighlight" -> "--no-highlight"
      [] f = "preserveTabs" -> "--preserve-tabs"
      [] f = "referenceLinks" -> "--reference-links"
      [] f = "failIfWarnings" -> "--fail-if-warnings"
      [] f = "verbose" -> "--verbose"
      [] f = "quiet" -> "--quiet"
      [] f = "trace" -> "--trace"
      [] f = "listInputFormats" -> "--list-input-formats"
      [] f = "listOutputFormats" -> "--list-output-formats"
      [] f = "listHighlightLanguages" -> "--list-highlight-languages"
      [] f = "listHighlightStyles" -> "--list-highlight-styles"
      [] f = "version" -> "--version"
      [] f = "help" -> "--help"
      [] f = "css" -> "--css"
      [] f = "includeInHeader" -> "--include-in-header"
      [] f = "includeBeforeBody" -> "--include-before-body"
      [] f = "includeAfterBody" -> "--include-after-body"
      [] f = "bibliography" -> "--bibliography"
      [] f = "filters" -> "--filter"
      [] f = "luaFilters" -> "--lua-filter"
      [] f = "resourcePath" -> "--resource-path"
      [] f = "pdfEngineOpts" -> "--pdf-engine-opt"
      [] f = "from" -> "--from"
      [] f = "to" -> "--to"
      [] f = "output" -> "--output"
      [] f = "template" -> "--template"
      [] f = "tocDepth" -> "--toc-depth"
      [] f = "csl" -> "--csl"
      [] f = "citationAbbreviations" -> "--citation-abbreviations"
      [] f = "dataDir" -> "--data-dir"
      [] f = "pdfEngine" -> "--pdf-engine"
      [] f = "referenceDoc" -> "--reference-doc"
      [] f = "referenceLocation" -> "--reference-location"
      [] f = "extractMedia" -> "--extract-media"
      [] f = "logFile" -> "--log"
      [] f = "listExtensions" -> "--list-extensions"
      [] f = "printDefaultTemplate" -> "--print-default-template"
      [] f = "printDefaultDataFile" -> "--print-default-data-file"
      [] f = "printHighlightStyle" -> "--print-highlight-style"

\* how often a token occurs in an argument list
Count(args, x) == Cardinality({i \in DOMAIN args : args[i] = x})

\* the values following the occurrences of a flag, in order
RECURSIVE ValuesOf(_, _)
ValuesOf(args, flag) ==
    IF Len(args) < 2 THEN <<>>
    ELSE IF args[1] = flag
    THEN <<args[2]>> \o ValuesOf(SubSeq(args, 3, Len(args)), flag)
    ELSE ValuesOf(Tail(args), flag)

BuiltArgs == call.entry = "buildArgs" /\ request.made

\* C14: buildArgs emits the flag of every boolean field exactly once when the
\* field is true and not at all when it is false or absent.
C14_BooleanFlags ==
    BuiltArgs =>
        \A f \in BoolFields :
            Count(request.args, FlagOf(f)) =
                IF call.options[f] = Bool(TRUE) THEN 1 ELSE 0

\* C15 as stated: for every list-valued field holding n values buildArgs emits
\* the field's flag n times, each followed by one value, in the caller's order;
\* a scalar yields the tokens of the one-element list holding it.
C15_ListFlags ==
    BuiltArgs =>
        \A f \in ListFields :
            LET v == call.options[f]
                l == IF v.type = "undefined" THEN <<>> ELSE AsArray(v) IN
            /\ Count(request.args, FlagOf(f)) = Len(l)
            /\ ValuesOf(request.args, FlagOf(f)) = l

\* C15 amended: for css, includeInHeader, includeBeforeBody, includeAfterBody,
\* bibliography, filters, luaFilters and pdfEngineOpts a list of n values yields
\* the flag n times, each followed by one value, in the caller's order, and a
\* non-empty scalar yields the tokens of its one-element list; an empty-string
\* scalar yields nothing.  resourcePath yields its flag once, followed by the
\* values joined with ":" (also for the empty list), and nothing when it is
\* absent or the empty string.
C15_ListFlagsJoined ==
    BuiltArgs =>
        \A f \in ListFields :
            LET v == call.options[f]
                l == IF JsTruthy(v) THEN AsArray(v) ELSE <<>>
                vals == ValuesOf(request.args, FlagOf(f)) IN
            IF f = "resourcePath"
            THEN /\ Count(request.args, FlagOf(f)) = IF JsTruthy(v) THEN 1 ELSE 0
                 /\ vals = IF JsTruthy(v) THEN <<JoinWith(l, ":")>> ELSE <<>>
            ELSE /\ Count(request.args, FlagOf(f)) = Len(l)
                 /\ vals = l

\* buildArgs was given a two-element resourcePath
C15_Witness ==
    /\ BuiltArgs
    /\ call.options.resourcePath = Array(<<"a", "b">>)
    /\ request.args = <<"--resource-path", "a:b">>

\* the user's Lua filters as a list
UserLuaFilters ==
    IF JsTruthy(call.options.luaFilters) THEN AsArray(call.options.luaFilters)
    ELSE <<>>

FileRequested == call.entry \in FileEntries /\ request.made

\* C16 as stated: whenever extractMedia is set, every file-conversion entry
\* point passes the relative-links filter as a --lua-filter argument.
C16_FilterWheneverMedia ==
    FileRequested /\ JsTruthy(call.options.extractMedia) =>
        \E i \in 1..(Len(request.args) - 1) :
            request.args[i] = "--lua-filter" /\ request.args[i + 1] = FilterPath

\* C16 amended: epubToMarkdown and epubToHtml pass the relative-links filter as
\* a --lua-filter argument exactly when extractMedia is set (non-empty);
\* Pandoc.convertFile and convertFileFormat never add it: their --lua-filter
\* arguments are the user's filters.
C16_FilterFromEpubHelpers ==
    FileRequested =>
        LET lua == ValuesOf(request.args, "--lua-filter") IN
        IF call.entry \in {"epubToMarkdown", "epubToHtml"}
        THEN (\E i \in DOMAIN lua : lua[i] = FilterPath)
                 <=> JsTruthy(call.options.extractMedia)
        ELSE lua = UserLuaFilters /\ Count(request.args, FilterPath) = 0

\* convertFileFormat was called with extractMedia and a user filter, and the
\* relative-links filter is not among the arguments
C16_Witness ==
    /\ FileRequested /\ call.entry = "convertFileFormat"
    /\ JsTruthy(call.options.extractMedia)
    /\ ValuesOf(request.args, "--extract-media") = <<"./media">>
    /\ ValuesOf(request.args, "--lua-filter") = <<"a">>

\* C17: epubToMarkdown and epubToHtml with extractMedia set pass as --lua-filter
\* arguments the user's filters (a list, or a single string) in the caller's
\* order followed by the relative-links filter as the last one; with
\* extractMedia unset they pass the user's filters unchanged.
C17_FilterChainOrder ==
    FileRequested /\ call.entry \in {"epubToMarkdown", "epubToHtml"} =>
        ValuesOf(request.args, "--lua-filter") =
            IF JsTruthy(call.options.extractMedia)
            THEN UserLuaFilters \o <<FilterPath>>
            ELSE UserLuaFilters

\* epubToHtml was called with extractMedia and two user filters
C17_Witness ==
    /\ FileRequested /\ call.entry = "epubToHtml"
    /\ call.options.luaFilters = Array(<<"b", "a">>)
    /\ ValuesOf(request.args, "--lua-filter") = <<"b", "a", FilterPath>>

\* C18: convertFile overrides the child's working directory exactly when
\* extractMedia and an output path are both given; then the working directory
\* is the directory of the resolved output path and --output is the path's
\* base name, which inside that directory names the resolved output path;
\* otherwise no working directory is set and --output is the path as given.
\* The first argument is always the input path resolved to absolute.
C18_Relocation ==
    FileRequested =>
        LET out == ValuesOf(request.args, "--output")
            both == JsTruthy(call.options.extractMedia) /\ Truthy(call.outputPath) IN
        /\ request.cwd # Undefined <=> both
        /\ request.args[1] = ResolvePath(call.inputPath)
        /\ SubSeq(request.args[1], 1, 1) = "/"
        /\ both =>
               /\ request.cwd = "/work/out" /\ out = <<"book.md">>
               /\ Join(request.cwd, out[1]) = ResolvePath(call.outputPath)
        /\ ~both =>
               out = IF Truthy(call.outputPath) THEN <<call.outputPath>> ELSE <<>>

\* convertFile was called with a relative input, an output path and extractMedia
C18_Witness ==
    /\ FileRequested /\ call.entry = "convertFile"
    /\ call.inputPath = "in.epub" /\ call.outputPath = "out/book.md"
    /\ JsTruthy(call.options.extractMedia)
    /\ request.cwd = "/work/out" /\ request.args[1] = "/work/in.epub"

\* C19: the warnings of a result built from a closed run are the lines of the
\* child's stderr that contain "[WARNING]" or, in any case, "warning:",
\* trimmed, in emission order, and no other line; warnings never change the
\* success flag, which follows the exit code alone.
C19_WarningsFromStderr ==
    \A c \in Tasks :
        LET t == task[c] IN
        IsConversion(t) /\ HasReturned(t) /\ t.res.via = "try" =>
            /\ t.res.warnings = Array(ParseWarnings(t.run.stderr))
            /\ t.res.success <=> t.run.code = "0"

\* C20: every result convert or convertFile returns with success=false carries
\* a non-empty error message, and every result they return carries the
\* resolved version.
C20_FailureHasError ==
    \A c \in Tasks :
        LET t == task[c] IN
        IsConversion(t) /\ HasReturned(t) =>
            /\ ~t.res.success => Truthy(t.res.error)
            /\ Truthy(t.res.version) /\ t.res.version = version

\* the position of a getBinaryPath call agrees with what it has done so far:
\* probe number gi of pass gpass is the probe of candidate gi, after all
\* earlier candidates of the pass, and the installer ran before pass 2 only
ResolutionState(t) ==
    /\ t.gpc = "probe" =>
           /\ t.gpass \in {1, 2} /\ t.gi \in 1..Len(possiblePaths)
           /\ t.ex.purpose = "probe" /\ t.ex.path = possiblePaths[t.gi]
           /\ t.gprobes = (t.gpass - 1) * Len(possiblePaths) + t.gi
           /\ t.ginstalls = t.gpass - 1
    /\ t.gpc = "install" =>
           /\ t.gpass = 1 /\ t.gprobes = Len(possiblePaths) /\ t.ginstalls = 1
    /\ t.gret.kind = "value" /\ t.gprobes > 0 =>
           /\ t.gret.val = possiblePaths[t.gi]
           /\ t.gprobes = (t.gpass - 1) * Len(possiblePaths) + t.gi
           /\ t.ginstalls = t.gpass - 1
    /\ t.ginstalls <= 1

\* one step of a getBinaryPath call moves it in the order of the code
ResolutionStep(c) ==
    LET t == task[c]
        u == task'[c] IN
    /\ t.gpc = "probe" /\ u.gpc = "probe" /\ u.gprobes = t.gprobes + 1 =>
           /\ Settled(t.ex) /\ ~ProbeSucceeded(t.ex)
           /\ u.gi = t.gi + 1 /\ u.gpass = t.gpass /\ binaryPath' = binaryPath
    /\ t.gpc = "probe" /\ u.gpc = "install" =>
           /\ Settled(t.ex) /\ ~ProbeSucceeded(t.ex)
           /\ t.gi = Len(possiblePaths) /\ t.gpass = 1 /\ t.ginstalls = 0
    /\ t.gpc = "install" /\ u.gpc = "probe" =>
           /\ t.inst = "resolved" /\ u.gi = 1 /\ u.gpass = 2
    /\ t.gpc = "probe" /\ u.gpc = "none" /\ u.gret.kind = "value" =>
           /\ ProbeSucceeded(t.ex)
           /\ u.gret.val = possiblePaths[t.gi] /\ binaryPath' = possiblePaths[t.gi]
           /\ u.gprobes = t.gprobes
    /\ t.gpc = "probe" /\ u.gpc = "none" /\ u.gret.kind = "throw" =>
           /\ ~ProbeSucceeded(t.ex)
           /\ t.gi = Len(possiblePaths) /\ t.gpass = 2
    /\ t.gpc = "install" /\ u.gpc = "none" =>
           /\ t.inst \in {"rejected: failed with code", "rejected: error"}
           /\ u.gret.kind = "throw"

\* C24 as stated: within one getBinaryPath call the candidates are probed in
\* list order and the first that succeeds is cached and returned without
\* probing later ones; the installer is started only after every candidate has
\* failed, at most once, and is followed by exactly one further pass over the
\* candidates before the call fails.
C24_SecondPassBeforeFailure ==
    /\ [](\A c \in Tasks :
            /\ ResolutionState(task[c])
            /\ task[c].gret.kind = "throw" =>
                   /\ task[c].ginstalls = 1
                   /\ task[c].gprobes = 2 * Len(possiblePaths))
    /\ [][\A c \in Tasks : ResolutionStep(c)]_vars

\* C24 amended: the same order, where the further pass over the candidates is
\* made only when the installer succeeded; when the installer fails the call
\* fails at once, with no further probe.
C24_ResolutionOrder ==
    /\ [](\A c \in Tasks :
            /\ ResolutionState(task[c])
            /\ task[c].gret.kind = "throw" =>
                   /\ task[c].ginstalls = 1
                   /\ task[c].gprobes =
                          task[c].gpass * Len(possiblePaths))
    /\ [][\A c \in Tasks : ResolutionStep(c)]_vars

\* a call failed right after its installer had failed, having probed each
\* candidate once
C24_Witness ==
    \E c \in Tasks :
        LET t == task[c] IN
        /\ t.gret.kind = "throw" /\ t.gpass = 1 /\ t.ginstalls = 1
        /\ t.gprobes = Len(possiblePaths)

\* C25: buildArgs validates nothing: for every value supplied for a
\* scalar-valued field, tocDepth given as 0 or as a non-numeric value included,
\* the field's flag is emitted once, followed by the stringified value.
C25_ScalarPassedThrough ==
    BuiltArgs =>
        \A f \in ScalarFields :
            LET v == call.options[f] IN
            ValuesOf(request.args, FlagOf(f)) =
                IF v.type = "undefined" THEN <<>> ELSE <<ToStr(v)>>

\* C26 as stated: when convertFile relocates the child's working directory,
\* the outputPath of the returned result is the absolute resolved form of the
\* output path the caller passed, and the host's working directory is what it
\* was before the call.
C26_RelocatedResultPath ==
    /\ hostCwd = HostCwd
    /\ \A c \in Tasks :
           LET t == task[c] IN
           t.op = "convertFile" /\ Truthy(t.cwd) /\ HasReturned(t) =>
               t.res.outputPath = ResolvePath(t.outputArg)

\* C26 amended: the same for every result built from a run that closed,
\* whatever its exit code; a result returned after a timeout or a spawn
\* failure, or after the version query failed, carries no outputPath.  The
\* host's working directory never changes.
C26_RelocatedResult ==
    /\ hostCwd = HostCwd
    /\ \A c \in Tasks :
           LET t == task[c] IN
           /\ Truthy(t.cwd) <=> (t.run.kind # "none" \/ t.pc = "cf_exec") /\ Relocates(t)
           /\ t.op = "convertFile" /\ Truthy(t.cwd) /\ HasReturned(t) =>
                  IF t.res.via = "try"
                  THEN /\ t.res.outputPath = ResolvePath(t.outputArg)
                       /\ t.res.outputPath = "/work/out/book.md"
                       /\ t.cwd = "/work/out"
                  ELSE t.res.outputPath = Undefined

\* a relocated conversion whose child exited with code 1 returned its result
C26_Witness ==
    \E c \in Tasks :
        LET t == task[c] IN
        /\ t.op = "convertFile" /\ Truthy(t.cwd) /\ HasReturned(t)
        /\ t.res.via = "try" /\ ~t.res.success /\ t.run.code = "1"
        /\ t.res.outputPath = "/work/out/book.md"

(* stdin of the child *)
\* the calls of one kind made on a child's stdin
StdinCalls(e, op) == {i \in 1..Len(e.stdin) : e.stdin[i].op = op}

\* C27: every invocation ends its child's stdin exactly once; with input the
\* text is written once, whole, before the end; with no input or the empty
\* text nothing is written; no write follows the end.
C27_StdinEndedOnce ==
    \A c \in Tasks :
        LET e == task[c].ex
            input == InputOf(task[c], e.purpose) IN
        e.purpose # "none" =>
            /\ Cardinality(StdinCalls(e, "end")) = 1
            /\ \A i \in StdinCalls(e, "write"), j \in StdinCalls(e, "end") : i < j
            /\ IF input # Undefined /\ input # ""
               THEN e.stdin = <<StdinWrite(input), StdinEnd>>
               ELSE e.stdin = <<StdinEnd>>

\* a conversion child that was given the text and has closed, after a
\* conversion of the empty text or a query sent nothing
C27_Witness ==
    \E c \in Tasks :
        LET e == task[c].ex IN
        /\ task[c].op = "convert" /\ e.purpose = "convert" /\ e.closeEv
        /\ task[c].input = "# Hi"
        /\ e.stdin = <<[op |-> "write", data |-> "# Hi"], [op |-> "end", data |-> ""]>>

(* command line tool *)
\* a run that failed: an unknown option, an error thrown while parsing, a
\* conversion that threw or returned success = false
CliFailed(r) ==
    \/ Len(r.argv) > 0 /\ r.parsed.how \in {"exit", "throw"}
    \/ r.call.entry # "none" /\ r.awaited \in {"failure", "thrown"}

\* C21: a run of the tool that has ended has exit code 1 if it failed (unknown
\* option, thrown error, conversion that threw or returned success = false,
\* missing input file) and 0 otherwise: after a successful conversion, after
\* the help text, after the version report whether or not pandoc answered.
C21_ExitCodes ==
    cli.pc = "exited" =>
        /\ cli.exit = IF CliFailed(cli) THEN "1" ELSE "0"
        /\ ~cli.exists => cli.exit = "1"
        /\ Len(cli.argv) > 0 /\ cli.argv[1] = "--bogus" => cli.exit = "1"
        /\ cli.argv \in {<<"-h">>, <<"--version">>} => cli.exit = "0"
        /\ cli.awaited = "success" => cli.exit = "0"
        /\ cli.by \in {"catch", "fatal", "failure", "unknownOption"} => cli.exit = "1"

\* the run of `in.md` on a missing file has ended with code 1
C21_Witness ==
    /\ cli.pc = "exited" /\ cli.argv = <<"in.md">>
    /\ ~cli.exists /\ cli.by = "failure" /\ cli.exit = "1"

\* an argument list made of -V and -M, each followed by a key=value pair
IsPairs(args) ==
    /\ Len(args) > 0 /\ Len(args) % 2 = 0
    /\ \A i \in 1..Len(args) :
           IF i % 2 = 1 THEN args[i] \in {"-V", "-M"} ELSE args[i] \in {"k=v", "a=b"}
HasProperty(v, key, value) ==
    v.type = "object" /\ \E i \in 1..Len(v.kv) : v.kv[i] = <<key, Str(value)>>

\* C29 as stated: once such an argument list is parsed, every -M key=value of
\* it has set metadata[key] = value and every -V key=value has set
\* variables[key] = value, whatever -V arguments come before a -M.
C29_PairsParsed ==
    cli.pc # "start" /\ IsPairs(cli.argv) =>
        /\ cli.parsed.how = "return"
        /\ \A i \in 1..(Len(cli.argv) - 1) :
               LET key == SubSeq(cli.argv[i + 1], 1, 1)
                   value == SubSeq(cli.argv[i + 1], 3, 3) IN
               /\ cli.argv[i] = "-M" =>
                      HasProperty(cli.parsed.options.metadata, key, value)
               /\ cli.argv[i] = "-V" =>
                      HasProperty(cli.parsed.options.variables, key, value)

\* the part of C29 the parser keeps: -V pairs alone are all set
C29_VariablesParsed ==
    cli.pc # "start" /\ IsPairs(cli.argv) /\ (\A i \in 1..Len(cli.argv) : cli.argv[i] # "-M") =>
        /\ cli.parsed.how = "return"
        /\ \A i \in 1..(Len(cli.argv) - 1) :
               cli.argv[i] = "-V" =>
                   HasProperty(cli.parsed.options.variables,
                               SubSeq(cli.argv[i + 1], 1, 1), SubSeq(cli.argv[i + 1], 3, 3))

\* every run with a -M in option position has thrown while parsing, with no
\* metadata set
C29_MetadataThrows ==
    cli.pc # "start" /\ IsPairs(cli.argv) /\ (\E i \in 1..Len(cli.argv) : cli.argv[i] = "-M") =>
        /\ cli.parsed.how = "throw" /\ cli.parsed.message = VarPairMsg
        /\ cli.parsed.options.metadata = Object(<<>>)
        /\ cli.pc = "exited" => cli.exit = "1"

(* relative-links.lua *)
\* the path of an element: the src of an image, the target of a link
PathOf(e) == IF e.tag = "Image" THEN e.src ELSE e.target
GivenPath == PathOf(elem.given)
NowPath == PathOf(elem.now)

\* the segments of a path, and the first of dirs that is one of them with a
\* separator before it and a separator and something more after it
SegmentsOf(p) == SplitAll(Normalised(p), "/")
Rejoined(segs, i) == JoinWith(SubSeq(segs, i, Len(segs)), "/")
DirectoryAt(segs, d) ==
    {i \in 2..(Len(segs) - 1) : segs[i] = d /\ Rejoined(segs, i + 1) # ""}
RECURSIVE SuffixFrom(_, _)
SuffixFrom(segs, dirs) ==
    IF Len(dirs) = 0 THEN Nil
    ELSE IF DirectoryAt(segs, Head(dirs)) # {}
    THEN Rejoined(segs, Leftmost(DirectoryAt(segs, Head(dirs))))
    ELSE SuffixFrom(segs, Tail(dirs))
AssetDirectories == <<"media", "assets", "images", "img", "files">>
DotSlash(x) == IF Substring(x, 1, 1) = "." THEN x ELSE "./" \o x

IsNetworkUrl(p) ==
    \E scheme \in {"http://", "https://", "ftp://"} : Substring(p, 1, Len(scheme)) = scheme
IsRelativePath(p) ==
    /\ Substring(p, 1, 1) # "/"
    /\ Substring(p, 1, 2) # Backslash \o Backslash
    /\ ~(Len(p) >= 3 /\ Substring(p, 2, 2) = ":" /\ Substring(p, 3, 3) \in {"/", Backslash}
           /\ IsLetter(Substring(p, 1, 1)))

\* C23: a visited element whose path was a network URL or a relative path is
\* as it was given; any visited element differs from the given one at most in
\* its src (image) or its target (link).
C23_UrlsAndRelativeKept ==
    elem.visited =>
        /\ IsNetworkUrl(GivenPath) \/ IsRelativePath(GivenPath) => elem.now = elem.given
        /\ elem.given.tag = "Image" => elem.now = [elem.given EXCEPT !.src = elem.now.src]
        /\ elem.given.tag = "Link" => elem.now = [elem.given EXCEPT !.target = elem.now.target]

\* the link to https://example.com/img.png has been visited and is as given,
\* after an image with an absolute path elsewhere got a new src
C23_Witness ==
    /\ elem.visited /\ elem.given.tag = "Link"
    /\ elem.given.target = "https://example.com/img.png"
    /\ elem.now.target = "https://example.com/img.png"
    /\ elem.now.title = "T" /\ elem.now.caption = "text"

\* C28: for the path p of every element, make_relative(p) is not absolute and
\* make_relative(make_relative(p)) = make_relative(p); a visited image has a
\* path that is not absolute, and visiting it again changes nothing.
C28_RelativeIdempotent ==
    /\ ~is_absolute(make_relative(GivenPath))
    /\ make_relative(make_relative(GivenPath)) = make_relative(GivenPath)
    /\ elem.visited /\ elem.now.tag = "Image" =>
           /\ elem.now.src = make_relative(GivenPath)
           /\ ~is_absolute(elem.now.src)
           /\ Image(elem.now) = elem.now
    /\ elem.visited /\ elem.now.tag = "Link" => Link(elem.now) = elem.now

\* a visited image whose path was absolute and ended in a separator
C28_Witness ==
    /\ elem.visited /\ elem.given.tag = "Image"
    /\ elem.given.src = "/a/" /\ elem.now.src = ".//a/"

(* presets *)
\* the options a preset was called with, and whether an object has a property
GivenOptions == IF preset.options = Undef THEN Object(<<>>) ELSE preset.options
Names(o, key) == o.type = "object" /\ \E i \in 1..Len(o.kv) : o.kv[i][1] = key

\* C30 as stated: the variables of the options presets.resume returns hold the
\* default geometry unless the caller's variables name geometry, the default
\* fontsize unless they name fontsize, and every variable of the caller.
C30_DefaultsMerged ==
    preset.called =>
        LET given == Get(GivenOptions, "variables")
            got == Get(preset.result, "variables") IN
        /\ ~Names(given, "geometry") => HasProperty(got, "geometry", "margin=1in")
        /\ ~Names(given, "fontsize") => HasProperty(got, "fontsize", "11pt")
        /\ given.type = "object" =>
               \A i \in 1..Len(given.kv) : Names(got, given.kv[i][1])
                                            /\ Get(got, given.kv[i][1]) = given.kv[i][2]

\* what presets.resume returns: the caller's own variables property, whatever
\* it holds, in place of the merged object; the defaults when the caller's
\* options have no such property
C30_VariablesReplaced ==
    preset.called =>
        Get(preset.result, "variables") =
            IF Names(GivenOptions, "variables") THEN Get(GivenOptions, "variables")
            ELSE Object(ResumeVariables)

====
